---- MODULE Spec2Model ----
(***************************************************************************)
(* A model of the enterprise-rag service: the Qdrant collection manager    *)
(* (schema setup, upsert, fused single-collection search, multi-collection *)
(* aggregation), the ingestion pipeline (load -> clean -> chunk -> embed   *)
(* -> store) and the document loader.                                      *)
(*                                                                         *)
(* A passage of text is identified by its similarity to the query of the   *)
(* request under each of the three representations: d (dense cosine),      *)
(* s (sparse overlap, 0 = no shared term) and c (late-interaction MaxSim). *)
(* Drawing passages from all such triples covers every query.              *)
(***************************************************************************)
EXTENDS Integers, Sequences, FiniteSets, TLC

VARIABLES
    collExists,   \* names of the collections that exist in the vector store
    collSchema,   \* collection name -> its vector configuration
    collPoints,   \* collection name -> the set of points it stores
    collCreated,  \* collection name -> number of times it has been created
    nextId,       \* number of point identifiers generated so far
    nCalls,       \* number of ingestion calls made so far
    initRes,      \* calls/outcome of initialize_collections
    ing,          \* the last ingestion call (process_document / upsert_points)
    srch,         \* the last search call and the stages it went through
    fus,          \* the last rank fusion of two candidate lists
    resp,         \* the last query operation: what the generation step was
                  \* given and the response that was shaped
    web           \* the /ingest requests being served and the files on disk

vars == <<collExists, collSchema, collPoints, collCreated, nextId, nCalls,
          initRes, ing, srch, fus, resp, web>>

storeVars == <<collExists, collSchema, collPoints, collCreated, nextId, nCalls>>

----------------------------------------------------------------------------
(* Bounds of the model *)

MaxPages == 2       \* pages of an uploaded PDF
MaxMembers == 2     \* PDF members of an uploaded archive
MaxCalls == 2       \* ingestion calls (process_document, upsert_points)
MaxInitCalls == 2   \* calls of initialize_collections
MaxBatch == 2       \* pairs of a direct upsert_points call

----------------------------------------------------------------------------
(* Helpers *)

Range(q) == {q[i] : i \in 1..Len(q)}

Min(a, b) == IF a <= b THEN a ELSE b

SeqsBetween(S, lo, hi) == UNION {[1..k -> S] : k \in lo..hi}

RECURSIVE Flatten(_)
Flatten(qq) == IF qq = <<>> THEN <<>> ELSE Head(qq) \o Flatten(Tail(qq))

----------------------------------------------------------------------------
(* Settings: core/config.py *)

COLLECTION_ORG == "org_knowledge"

COLLECTION_USER == "user_uploads"

CollNames == {COLLECTION_ORG, COLLECTION_USER}

----------------------------------------------------------------------------
(* QdrantManager.initialize_collections *)

NoSchema ==
    [dense_size |-> 0, dense_distance |-> "", colbert_size |-> 0,
     colbert_distance |-> "", colbert_comparator |-> "", colbert_hnsw_m |-> -1,
     sparse_modifier |-> ""]

\* dense: 384 cosine; colbert: 128 cosine, MaxSim comparator, HNSW disabled
\* (m = 0); sparse: IDF modifier.
HybridSchema ==
    [dense_size |-> 384, dense_distance |-> "Cosine", colbert_size |-> 128,
     colbert_distance |-> "Cosine", colbert_comparator |-> "max_sim",
     colbert_hnsw_m |-> 0, sparse_modifier |-> "idf"]

\* A state of the vector store as the setup loop sees it.
StoreView(ex, sc, pt, cr) ==
    [exists |-> ex, schema |-> sc, points |-> pt, created |-> cr, raised |-> FALSE]

\* client.create_collection: the store refuses to create a collection that
\* already exists (409 conflict, raised by the client); otherwise the
\* collection is created empty with the given configuration.
create_collection(st, c) ==
    IF c \in st.exists
    THEN [st EXCEPT !.raised = TRUE]
    ELSE [st EXCEPT !.exists = @ \cup {c},
                    !.schema = [@ EXCEPT ![c] = HybridSchema],
                    !.points = [@ EXCEPT ![c] = {}],
                    !.created = [@ EXCEPT ![c] = @ + 1]]

ShouldCreateAlways(st, c) == TRUE

\* `if not self.client.collection_exists(collection)`
ShouldCreate(st, c) == c \notin st.exists

\* The loop over [COLLECTION_ORG, COLLECTION_USER]; an exception leaves it.
RECURSIVE InitLoop(_, _)
InitLoop(cols, st) ==
    IF cols = <<>> \/ st.raised THEN st
    ELSE InitLoop(Tail(cols),
                  IF ShouldCreate(st, Head(cols))
                  THEN create_collection(st, Head(cols))
                  ELSE st)

initialize_collections(st) == InitLoop(<<COLLECTION_ORG, COLLECTION_USER>>, st)

InitializeCollections ==
    /\ initRes.calls < MaxInitCalls
    /\ LET r == initialize_collections(
                    StoreView(collExists, collSchema, collPoints, collCreated))
       IN /\ collExists' = r.exists
          /\ collSchema' = r.schema
          /\ collPoints' = r.points
          /\ collCreated' = r.created
          /\ initRes' = [calls |-> initRes.calls + 1,
                         raised |-> initRes.raised \/ r.raised,
                         held |-> Cardinality(UNION {collPoints[c] : c \in CollNames})]
    /\ UNCHANGED <<nextId, nCalls, ing, srch, fus, resp, web>>

----------------------------------------------------------------------------
(* Uploaded files *)

\* Two passages: TA is found by the dense index only, TB by both.
TA == [d |-> 2, s |-> 0, c |-> 1]

TB == [d |-> 1, s |-> 1, c |-> 2]

\* A page is the sequence of passages its text holds, one per chunk the
\* splitter cuts (chunk_size 1000): a blank page, or a page of two chunks.
PageKinds == {<<>>, <<TA, TB>>}

\* The body of a PDF: unreadable, or its pages.
PdfBodies(maxPages) ==
    {[ok |-> FALSE, pages |-> <<>>]}
    \cup {[ok |-> TRUE, pages |-> p] : p \in SeqsBetween(PageKinds, 1, maxPages)}

UploadStem == "f"

NoBody == [ok |-> FALSE, pages |-> <<>>, members |-> <<>>]

\* Paths that fail validation: a missing path, an empty file, a present file
\* with an unsupported extension.
InvalidFiles ==
    {[stem |-> UploadStem, ext |-> e, status |-> "missing", body |-> NoBody]
        : e \in {".pdf"}}
    \cup {[stem |-> UploadStem, ext |-> e, status |-> "empty", body |-> NoBody]
        : e \in {".pdf", ".zip"}}
    \cup {[stem |-> UploadStem, ext |-> ".txt", status |-> "present", body |-> NoBody]}

PdfFiles ==
    {[stem |-> UploadStem, ext |-> ".pdf", status |-> "present",
      body |-> [ok |-> b.ok, pages |-> b.pages, members |-> <<>>]]
        : b \in PdfBodies(MaxPages)}

\* An archive: not a readable zip, or its PDF members (one page each) in the
\* order the extraction directory lists them.
ZipFiles ==
    {[stem |-> UploadStem, ext |-> ".zip", status |-> "present", body |-> NoBody]}
    \cup {[stem |-> UploadStem, ext |-> ".zip", status |-> "present",
           body |-> [ok |-> TRUE, pages |-> <<>>, members |-> m]]
        : m \in SeqsBetween(PdfBodies(1), 0, MaxMembers)}

Files == InvalidFiles \cup PdfFiles \cup ZipFiles

FileName(f) == f.stem \o f.ext

MemberName(i) == "m" \o ToString(i) \o ".pdf"

\* document_name values of an ingest request; "" makes the loader fall back
\* to the file stem.
DocNames == {"p1", ""}

\* The value of a payload key a point does not carry.
Absent == "<absent>"

----------------------------------------------------------------------------
(* DocumentLoader *)

SUPPORTED_FORMATS == {".pdf", ".zip"}

validate_file_path(f) ==
    IF f.status = "missing" THEN FALSE
    ELSE IF f.ext \notin SUPPORTED_FORMATS THEN FALSE
    ELSE IF f.status = "empty" THEN FALSE
    ELSE TRUE

Raised(e) == [raised |-> TRUE, error |-> e, docs |-> <<>>]

Returned(d) == [raised |-> FALSE, error |-> "", docs |-> d]

load_pdf_zero_based(fileName, stem, body, document_name) ==
    IF ~body.ok THEN Raised("pdf load error")
    ELSE LET doc_name == IF document_name # "" THEN document_name ELSE stem
         IN Returned([i \in 1..Len(body.pages) |->
                [passages |-> body.pages[i], file |-> fileName, doc |-> doc_name,
                 src |-> "pdf", page |-> i - 1, zip |-> "",
                 cleaned |-> FALSE]])

\* load_pdf: one Document per page; page_number = 0-based page + 1.
load_pdf(fileName, stem, body, document_name) ==
    IF ~body.ok THEN Raised("pdf load error")
    ELSE LET doc_name == IF document_name # "" THEN document_name ELSE stem
         IN Returned([i \in 1..Len(body.pages) |->
                [passages |-> body.pages[i], file |-> fileName, doc |-> doc_name,
                 src |-> "pdf", page |-> (i - 1) + 1, zip |-> "",
                 cleaned |-> FALSE]])

load_zip_untagged(f, document_name) ==
    IF ~f.body.ok THEN Raised("zip load error")
    ELSE LET doc_name == IF document_name # "" THEN document_name ELSE f.stem
             ms == f.body.members
             Loaded(i) == load_pdf(MemberName(i), "m" \o ToString(i),
                                   [ok |-> ms[i].ok, pages |-> ms[i].pages],
                                   doc_name)
         IN Returned(Flatten([i \in 1..Len(ms) |->
                IF Loaded(i).raised THEN <<>> ELSE Loaded(i).docs]))

\* load_zip: every member is loaded in turn; a member that fails is skipped
\* with a warning; the loaded pages are re-tagged with the archive's names.
load_zip(f, document_name) ==
    IF ~f.body.ok THEN Raised("zip load error")
    ELSE LET doc_name == IF document_name # "" THEN document_name ELSE f.stem
             ms == f.body.members
             Loaded(i) == load_pdf(MemberName(i), "m" \o ToString(i),
                                   [ok |-> ms[i].ok, pages |-> ms[i].pages],
                                   doc_name)
             Tagged(i) == IF Loaded(i).raised THEN <<>>
                          ELSE [k \in 1..Len(Loaded(i).docs) |->
                                  [Loaded(i).docs[k] EXCEPT !.zip = f.stem,
                                                            !.doc = doc_name,
                                                            !.src = "zip"]]
         IN Returned(Flatten([i \in 1..Len(ms) |-> Tagged(i)]))

load_document(f, document_name) ==
    IF f.ext = ".pdf"
    THEN load_pdf(FileName(f), f.stem,
                  [ok |-> f.body.ok, pages |-> f.body.pages], document_name)
    ELSE IF f.ext = ".zip" THEN load_zip(f, document_name)
    ELSE Raised("unsupported file format")

----------------------------------------------------------------------------
(* TextCleaner, DocumentChunker, EmbeddingsManager *)

\* clean_documents rewrites page_content of every page in place and returns
\* the pages in the same order with their metadata.
clean_documents(docs) == [i \in 1..Len(docs) |-> [docs[i] EXCEPT !.cleaned = TRUE]]

chunk_documents_per_page(docs) ==
    Flatten([i \in 1..Len(docs) |->
        [k \in 1..Len(docs[i].passages) |->
            [text |-> docs[i].passages[k], file |-> docs[i].file,
             doc |-> docs[i].doc, src |-> docs[i].src,
             page |-> docs[i].page, zip |-> docs[i].zip,
             cleaned |-> docs[i].cleaned, idx |-> k - 1]]])

\* split_documents: every page yields one chunk per passage, each with a copy
\* of the page's metadata; chunk_documents then numbers all chunks from 0.
chunk_documents(docs) ==
    LET split == Flatten([i \in 1..Len(docs) |->
                    [k \in 1..Len(docs[i].passages) |->
                        [text |-> docs[i].passages[k], file |-> docs[i].file,
                         doc |-> docs[i].doc, src |-> docs[i].src,
                         page |-> docs[i].page, zip |-> docs[i].zip,
                         cleaned |-> docs[i].cleaned, idx |-> 0]]])
    IN [j \in 1..Len(split) |-> [split[j] EXCEPT !.idx = j - 1]]

embed_dense(texts) == [i \in 1..Len(texts) |-> texts[i].d]

embed_sparse(texts) == [i \in 1..Len(texts) |-> [shape |-> "dict", w |-> texts[i].s]]

embed_colbert(texts) == [i \in 1..Len(texts) |-> texts[i].c]

\* [{"dense": d, "sparse": s, "colbert": c} for d, s, c in zip(...)]: zip
\* stops at the shortest of its lists.
ZipEmbeddings(dense, sparse, colbert) ==
    LET n == Min(Len(dense), Min(Len(sparse), Len(colbert)))
    IN [i \in 1..n |-> [dense |-> dense[i], sparse |-> sparse[i], colbert |-> colbert[i]]]

\* list(zip(documents, embeddings))
ZipDocuments(documents, embeddings) ==
    LET n == Min(Len(documents), Len(embeddings))
    IN [i \in 1..n |-> [chunk |-> documents[i], emb |-> embeddings[i]]]

embed_all(texts) ==
    ZipEmbeddings(embed_dense(texts), embed_sparse(texts), embed_colbert(texts))

embed_documents(documents) ==
    LET texts == [i \in 1..Len(documents) |-> documents[i].text]
        embeddings == embed_all(texts)
    IN ZipDocuments(documents, embeddings)

\* The elements of q at the positions K, in order: what a model yields when
\* it yields an embedding for those of its inputs only.
Yielded(q, K) ==
    LET pos == CHOOSE f \in [1..Cardinality(K) -> K] :
                   \A i \in 1..(Cardinality(K) - 1) : f[i] < f[i + 1]
    IN [i \in 1..Cardinality(K) |-> q[pos[i]]]

\* embed_documents over models that yield embeddings for the inputs at
\* positions kd (dense), ks (sparse) and kc (late interaction).
embed_documents_yielding(documents, kd, ks, kc) ==
    LET texts == [i \in 1..Len(documents) |-> documents[i].text]
        embeddings == ZipEmbeddings(Yielded(embed_dense(texts), kd),
                                    Yielded(embed_sparse(texts), ks),
                                    Yielded(embed_colbert(texts), kc))
    IN ZipDocuments(documents, embeddings)

----------------------------------------------------------------------------
(* QdrantManager.upsert_points *)

NoVec == -1       \* embeddings.get(...) of a missing key: None

SparseShapes == {"dict", "SparseVector", "none", "nodict", "nokeys"}

\* The sparse vector after the conversion of step 2, or the exception it
\* raises: .get on an object that has none; SparseVector(indices=None, ...).
ConvertSparse(sp) ==
    IF sp.shape = "SparseVector" \/ sp.shape = "none"
    THEN [raised |-> FALSE, error |-> "", sparse |-> sp]
    ELSE IF sp.shape = "nodict"
    THEN [raised |-> TRUE, error |-> "attribute error", sparse |-> sp]
    ELSE IF sp.shape = "nokeys"
    THEN [raised |-> TRUE, error |-> "validation error", sparse |-> sp]
    ELSE [raised |-> FALSE, error |-> "",
          sparse |-> [shape |-> "SparseVector", w |-> sp.w]]

PointStructAccepts(emb, sparse) == FALSE

\* PointStruct validates its named vectors: none of them may be None.
PointStructRaises(emb, sparse) ==
    emb.dense = NoVec \/ sparse.shape = "none" \/ emb.colbert = NoVec

PairRaises(pair) ==
    ConvertSparse(pair.emb.sparse).raised
    \/ PointStructRaises(pair.emb, ConvertSparse(pair.emb.sparse).sparse)

PairError(pair) ==
    IF ConvertSparse(pair.emb.sparse).raised
    THEN ConvertSparse(pair.emb.sparse).error
    ELSE "validation error"

PointIdByChunk(n, i, chunk) == chunk.idx + 1

\* str(uuid.uuid4()): an identifier no earlier call has generated.
PointId(n, i, chunk) == n + i

\* PointStruct(id, vector, payload): page_content plus the flattened metadata.
PointStruct(id, pair) ==
    [id |-> id,
     dense |-> pair.emb.dense,
     sparse |-> ConvertSparse(pair.emb.sparse).sparse.w,
     colbert |-> pair.emb.colbert,
     text |-> pair.chunk.text, doc |-> pair.chunk.doc, file |-> pair.chunk.file,
     page |-> pair.chunk.page, idx |-> pair.chunk.idx, src |-> pair.chunk.src,
     zip |-> pair.chunk.zip, cleaned |-> pair.chunk.cleaned]

\* client.upsert(collection_name, points, wait=True): one request that
\* writes the whole batch, replacing any stored point with the same id; the
\* store rejects an unknown collection and an empty batch.
ClientUpsertRaises(ex, coll, batch, fault) ==
    coll \notin ex \/ batch = {} \/ fault = "store"

ClientUpsertError(ex, coll, batch, fault) ==
    IF coll \notin ex THEN "collection not found"
    ELSE IF batch = {} THEN "empty update request"
    ELSE "store error"

ClientUpsertDeferred(pts, coll, batch) == pts

\* client.upsert(..., wait=True): the points are in the collection when the
\* call returns; a point with the id of a stored point replaces it.
ClientUpsert(pts, coll, batch) ==
    [c \in DOMAIN pts |->
        IF c = coll
        THEN {p \in pts[c] : \A b \in batch : b.id # p.id} \cup batch
        ELSE pts[c]]

upsert_points_eager(ex, pts, n, coll, points_data, fault) ==
    LET good == IF \E i \in 1..Len(points_data) : PairRaises(points_data[i])
                THEN (CHOOSE i \in 1..Len(points_data) :
                        /\ PairRaises(points_data[i])
                        /\ \A j \in 1..(i - 1) : ~PairRaises(points_data[j])) - 1
                ELSE Len(points_data)
        batch == {PointStruct(PointId(n, i, points_data[i].chunk), points_data[i])
                    : i \in 1..good}
        bad == good < Len(points_data)
    IN [raised |-> bad \/ coll \notin ex \/ fault = "store",
        error |-> IF bad THEN PairError(points_data[good + 1]) ELSE "store error",
        points |-> IF coll \in ex /\ fault # "store"
                   THEN ClientUpsert(pts, coll, batch) ELSE pts,
        ids |-> IF coll \in ex /\ fault # "store" THEN good ELSE 0]

\* upsert_points: builds every point of the batch first (an exception in the
\* loop leaves the method before anything is sent), then upserts once.
upsert_points(ex, pts, n, coll, points_data, fault) ==
    IF \E i \in 1..Len(points_data) : PairRaises(points_data[i])
    THEN LET i == CHOOSE k \in 1..Len(points_data) :
                    /\ PairRaises(points_data[k])
                    /\ \A j \in 1..(k - 1) : ~PairRaises(points_data[j])
         IN [raised |-> TRUE, error |-> PairError(points_data[i]),
             points |-> pts, ids |-> 0]
    ELSE LET batch == {PointStruct(PointId(n, i, points_data[i].chunk), points_data[i])
                        : i \in 1..Len(points_data)}
         IN IF ClientUpsertRaises(ex, coll, batch, fault)
            THEN [raised |-> TRUE,
                  error |-> ClientUpsertError(ex, coll, batch, fault),
                  points |-> pts, ids |-> 0]
            ELSE [raised |-> FALSE, error |-> "",
                  points |-> ClientUpsert(pts, coll, batch),
                  ids |-> Len(points_data)]

----------------------------------------------------------------------------
(* IngestionPipeline.process_document *)

\* Failures of the external collaborators: the embedding models, the store.
Faults == {"none", "embed"}

Outcome(stages, error, pairs, up) ==
    [stages |-> stages, raised |-> error # "", error |-> error,
     pairs |-> pairs, points |-> up.points, ids |-> up.ids]

\* The stages of process_document, in the order of its statements.
StageOrder == <<"validate", "load", "clean", "chunk", "embed", "store">>

\* The failures of a collaborator, stage by stage.
StageFaults == {"none", "clean", "chunk", "embed", "store"}

process_document_lenient(ex, pts, n, f, document_name, coll, fault) ==
    LET kept == [points |-> pts, ids |-> 0]
    IN IF ~validate_file_path(f)
       THEN Outcome(<<"validate">>, "file not found or invalid", <<>>, kept)
       ELSE LET loaded == load_document(f, document_name)
                final_chunks == embed_documents(chunk_documents(clean_documents(loaded.docs)))
                up == upsert_points(ex, pts, n, coll, final_chunks, fault)
            IN Outcome(StageOrder, IF up.raised THEN up.error ELSE "", final_chunks, up)

process_document(ex, pts, n, f, document_name, coll, fault) ==
    LET kept == [points |-> pts, ids |-> 0]
    IN IF ~validate_file_path(f)
       THEN Outcome(<<"validate">>, "file not found or invalid", <<>>, kept)
       ELSE LET loaded == load_document(f, document_name)
            IN IF loaded.raised
               THEN Outcome(<<"validate", "load">>, loaded.error, <<>>, kept)
               ELSE LET cleaned_docs == clean_documents(loaded.docs)
                        chunks == chunk_documents(cleaned_docs)
                    IN IF fault = "clean"
                       THEN Outcome(<<"validate", "load", "clean">>,
                                    "cleaning error", <<>>, kept)
                       ELSE IF fault = "chunk"
                       THEN Outcome(<<"validate", "load", "clean", "chunk">>,
                                    "chunking error", <<>>, kept)
                       ELSE IF fault = "embed"
                       THEN Outcome(<<"validate", "load", "clean", "chunk", "embed">>,
                                    "embedding error", <<>>, kept)
                       ELSE LET final_chunks == embed_documents(chunks)
                                up == upsert_points(ex, pts, n, coll, final_chunks, fault)
                            IN Outcome(<<"validate", "load", "clean", "chunk",
                                         "embed", "store">>,
                                       IF up.raised THEN up.error ELSE "",
                                       final_chunks, up)

NoFile == [stem |-> "", ext |-> "", status |-> "none", body |-> NoBody]

IngIdle ==
    [op |-> "none", file |-> NoFile, docName |-> "", coll |-> "", fault |-> "none",
     shapes |-> <<>>, stages |-> <<>>, raised |-> FALSE, error |-> "", pairs |-> 0,
     documents |-> <<>>, embedded |-> <<>>,
     firstId |-> 0, collOk |-> FALSE]

ProcessDocument(f, document_name, coll, fault) ==
    LET r == process_document(collExists, collPoints, nextId, f, document_name,
                              coll, fault)
    IN /\ nCalls < MaxCalls
       /\ collPoints' = r.points
       /\ nextId' = nextId + r.ids
       /\ nCalls' = nCalls + 1
       /\ ing' = [op |-> "process_document", file |-> f, docName |-> document_name,
                  coll |-> coll, fault |-> fault, shapes |-> <<>>,
                  documents |-> <<>>, embedded |-> <<>>,
                  stages |-> r.stages, raised |-> r.raised, error |-> r.error,
                  pairs |-> Len(r.pairs), firstId |-> nextId,
                  collOk |-> coll \in collExists]
       /\ UNCHANGED <<collExists, collSchema, collCreated, initRes, srch, fus, resp, web>>

\* A direct caller of upsert_points: chunks without ingestion metadata, any
\* shape of sparse vector.
DirectChunk ==
    [text |-> TB, file |-> "", doc |-> Absent, src |-> "", page |-> 0, zip |-> "",
     cleaned |-> FALSE, idx |-> 0]

DirectPair(shape) ==
    [chunk |-> DirectChunk,
     emb |-> [dense |-> TB.d, sparse |-> [shape |-> shape, w |-> TB.s],
              colbert |-> TB.c]]

UpsertPoints(coll, shapes) ==
    LET data == [i \in 1..Len(shapes) |-> DirectPair(shapes[i])]
        r == upsert_points(collExists, collPoints, nextId, coll, data, "none")
    IN /\ nCalls < MaxCalls
       /\ collPoints' = r.points
       /\ nextId' = nextId + r.ids
       /\ nCalls' = nCalls + 1
       /\ ing' = [op |-> "upsert_points", file |-> NoFile, docName |-> "",
                  coll |-> coll, fault |-> "none", shapes |-> shapes,
                  documents |-> <<>>, embedded |-> <<>>,
                  stages |-> <<"store">>, raised |-> r.raised, error |-> r.error,
                  pairs |-> Len(data), firstId |-> nextId,
                  collOk |-> coll \in collExists]
       /\ UNCHANGED <<collExists, collSchema, collCreated, initRes, srch, fus, resp, web>>

----------------------------------------------------------------------------
(* Filters: QdrantManager.create_match_filter *)

NoFilter == [kind |-> "none", key |-> "", value |-> ""]

\* An object that is not a models.Filter (a bare string, say).
InvalidFilter == [kind |-> "invalid", key |-> "", value |-> ""]

create_match_filter(key, value) == [kind |-> "match", key |-> key, value |-> value]

Payload(p, key) == IF key = "document_name" THEN p.doc ELSE Absent

\* Filter(must=[FieldCondition(key, MatchValue(value))]): the point carries
\* the key and its value equals the given one exactly.
Matches(p, f) ==
    f.kind = "none" \/ (Payload(p, f.key) # Absent /\ Payload(p, f.key) = f.value)

----------------------------------------------------------------------------
(* Ranking: the store's top-k selection and reciprocal rank fusion *)

\* Scores are fractions <<numerator, denominator>>, denominators positive.
Geq(a, b) == a[1] * b[2] >= b[1] * a[2]

FracAdd(a, b) == <<a[1] * b[2] + b[1] * a[2], a[2] * b[2]>>

InjSeqs(S, n) == {q \in [1..n -> S] : \A i, j \in 1..n : i # j => q[i] # q[j]}

\* The rankings a top-k selection of S by score sc can return: k elements
\* (all of S if it has fewer) in non-increasing order of score, none of
\* which scores less than an element left out.  The order among elements of
\* equal score is the store's choice.
TopOrders(S, sc, k) ==
    {q \in InjSeqs(S, Min(k, Cardinality(S))) :
        /\ \A i \in 1..(Len(q) - 1) : Geq(sc[q[i]], sc[q[i + 1]])
        /\ \A x \in S \ Range(q) : \A i \in 1..Len(q) : Geq(sc[q[i]], sc[x])}

\* models.Fusion.RRF with the store's default constant.
RrfK == 2

PosIn(q, x) == CHOOSE i \in 1..Len(q) : q[i] = x

RrfPartPadded(q, x) ==
    IF x \in Range(q) THEN <<1, RrfK + (PosIn(q, x) - 1)>> ELSE <<1, RrfK + Len(q)>>

\* What one ranked list contributes to x: 1 / (k + position), positions
\* counted from 0; nothing if x is not in the list.
RrfPart(q, x) == IF x \in Range(q) THEN <<1, RrfK + (PosIn(q, x) - 1)>> ELSE <<0, 1>>

RrfScoreMax(dn, sp, x) ==
    IF Geq(RrfPart(dn, x), RrfPart(sp, x)) THEN RrfPart(dn, x) ELSE RrfPart(sp, x)

\* The fused score: the sum over the lists x appears in.
RrfScore(dn, sp, x) == FracAdd(RrfPart(dn, x), RrfPart(sp, x))

\* Prefetch(prefetch=[dense, sparse], query=FusionQuery(RRF), limit=k)
Fusion(dn, sp, k) ==
    LET cands == Range(dn) \cup Range(sp)
    IN TopOrders(cands, [x \in cands |-> RrfScore(dn, sp, x)], k)

----------------------------------------------------------------------------
(* QdrantManager.search_single_collection *)

retrieval_limit_wide(limit) == limit * 4

retrieval_limit(limit) == limit * 3

fusion_limit(limit) == limit * 2

DenseCandidatesUnfiltered(P, f) == P

\* The dense prefetch sees the points the filter selects.
DenseCandidates(P, f) == {p \in P : Matches(p, f)}

SparseCandidatesUnfiltered(P, f) == {p \in P : p.sparse > 0}

\* The sparse index scores only the points that share a term with the query.
SparseCandidates(P, f) == {p \in P : Matches(p, f) /\ p.sparse > 0}

DenseOrders(P, f, k) ==
    LET C == DenseCandidates(P, f) IN TopOrders(C, [p \in C |-> <<p.dense, 1>>], k)

SparseOrders(P, f, k) ==
    LET C == SparseCandidates(P, f) IN TopOrders(C, [p \in C |-> <<p.sparse, 1>>], k)

RescoreByPosition(fused, limit) ==
    LET C == Range(fused)
        tops == TopOrders(C, [p \in C |-> <<p.colbert, 1>>], limit)
    IN {[i \in 1..Len(q) |-> [point |-> q[i], score |-> Len(q) - i]] : q \in tops}

\* The root query: the fused candidates rescored with the late-interaction
\* comparator; each returned point carries that score.
Rescore(fused, limit) ==
    LET C == Range(fused)
        tops == TopOrders(C, [p \in C |-> <<p.colbert, 1>>], limit)
    IN {[i \in 1..Len(q) |-> [point |-> q[i], score |-> q[i].colbert]] : q \in tops}

Run(coll, f, limit, raised, caught, dn, sp, fu, rs) ==
    [coll |-> coll, filter |-> f, limit |-> limit, raised |-> raised,
     caught |-> caught, dense |-> dn, sparse |-> sp, fused |-> fu, results |-> rs]

\* The Prefetch models validate their arguments when they are built, before
\* the try block: a filter that is not a Filter raises there.
BuildRaises(f) == f.kind = "invalid"

\* client.query_points raises for a collection the store does not have.
QueryRaises(ex, coll) == coll \notin ex

\* All runs of search_single_collection(collection_name, query_embeddings,
\* search_filter, limit) the store's tie-breaking allows.
search_single_collection(ex, pts, coll, f, limit) ==
    IF BuildRaises(f)
    THEN {Run(coll, f, limit, TRUE, FALSE, {}, {}, {}, <<>>)}
    ELSE IF QueryRaises(ex, coll)
    THEN {Run(coll, f, limit, FALSE, TRUE, {}, {}, {}, <<>>)}
    ELSE UNION {UNION {UNION {
            {Run(coll, f, limit, FALSE, FALSE, Range(dn), Range(sp), Range(fu), rs)
                : rs \in Rescore(fu, limit)}
            : fu \in Fusion(dn, sp, fusion_limit(limit))}
            : sp \in SparseOrders(pts[coll], f, retrieval_limit(limit))}
            : dn \in DenseOrders(pts[coll], f, retrieval_limit(limit))}

----------------------------------------------------------------------------
(* QdrantManager.search_multiple_collections *)

\* The loop over the targets: one run per target, in order; an exception
\* that leaves search_single_collection leaves the loop.
RECURSIVE TargetRuns(_, _, _, _)
TargetRuns(ex, pts, targets, limit) ==
    IF targets = <<>> THEN {<<>>}
    ELSE UNION {
            IF r.raised THEN {<<r>>}
            ELSE {<<r>> \o rest : rest \in TargetRuns(ex, pts, Tail(targets), limit)}
            : r \in search_single_collection(ex, pts, Head(targets).collection,
                                             Head(targets).filter, limit)}

InsertByScoreFront(x, q) ==
    LET before == {i \in 1..Len(q) : q[i].score > x.score}
    IN SubSeq(q, 1, Cardinality(before)) \o <<x>>
          \o SubSeq(q, Cardinality(before) + 1, Len(q))

RECURSIVE InsertByScore(_, _)
InsertByScore(x, q) ==
    IF q = <<>> THEN <<x>>
    ELSE IF Head(q).score >= x.score THEN <<Head(q)>> \o InsertByScore(x, Tail(q))
    ELSE <<x>> \o q

\* list.sort(key=score, reverse=True): stable, equal scores keep their order.
RECURSIVE SortByScoreDesc(_)
SortByScoreDesc(q) ==
    IF q = <<>> THEN <<>>
    ELSE InsertByScore(q[Len(q)], SortByScoreDesc(SubSeq(q, 1, Len(q) - 1)))

Slice(q, limit) == SubSeq(q, 1, Min(limit, Len(q)))

Aggregated(runs) == Flatten([i \in 1..Len(runs) |-> runs[i].results])

GlobalRerankNoSort(aggregated_results, limit) == Slice(aggregated_results, limit)

\* Steps 2 and 3: sort by score, descending, and slice the top `limit`.
GlobalRerank(aggregated_results, limit) ==
    Slice(SortByScoreDesc(aggregated_results), limit)

search_multiple_collections_shared(ex, pts, targets, limit) ==
    {[runs |-> runs,
      raised |-> \E i \in 1..Len(runs) : runs[i].raised,
      out |-> IF \E i \in 1..Len(runs) : runs[i].raised THEN <<>>
              ELSE GlobalRerank(Aggregated(runs), limit)]
        : runs \in TargetRuns(ex, pts, targets, limit \div Len(targets))}

\* All outcomes of search_multiple_collections(query_embeddings, targets, limit).
search_multiple_collections(ex, pts, targets, limit) ==
    {[runs |-> runs,
      raised |-> \E i \in 1..Len(runs) : runs[i].raised,
      out |-> IF \E i \in 1..Len(runs) : runs[i].raised THEN <<>>
              ELSE GlobalRerank(Aggregated(runs), limit)]
        : runs \in TargetRuns(ex, pts, targets, limit)}

----------------------------------------------------------------------------
(* Search requests: a behaviour follows one request against the store *)

SrchIdle ==
    [op |-> "none", limit |-> 0, targets |-> <<>>, runs |-> <<>>, raised |-> FALSE,
     out |-> <<>>]

SearchSingle(coll, f, limit) ==
    /\ srch.op = "none"
    /\ \E r \in search_single_collection(collExists, collPoints, coll, f, limit) :
          srch' = [op |-> "search_single_collection", limit |-> limit,
                   targets |-> <<[collection |-> coll, filter |-> f]>>,
                   runs |-> <<r>>, raised |-> r.raised, out |-> r.results]
    /\ UNCHANGED <<storeVars, initRes, ing, fus, resp, web>>

SearchMultiple(targets, limit) ==
    /\ srch.op = "none"
    /\ \E r \in search_multiple_collections(collExists, collPoints, targets, limit) :
          srch' = [op |-> "search_multiple_collections", limit |-> limit,
                   targets |-> targets, runs |-> r.runs, raised |-> r.raised,
                   out |-> r.out]
    /\ UNCHANGED <<storeVars, initRes, ing, fus, resp, web>>

----------------------------------------------------------------------------
(* No query operation served, no upload in progress *)

RespIdle ==
    [op |-> "none", raised |-> FALSE, given |-> <<>>, relevant_chunks |-> <<>>,
     sources |-> <<>>]

\* The names uploads arrive under; the handler saves an upload under its
\* name in the working directory.
UploadNames == {"f.pdf", "g.pdf"}

\* disk: the inode each path names (0: no such path); inodes: their contents.
\* The process before it has loaded its settings: the LLM API key of its
\* environment ("missing", "empty" or "set"), whether the vector store
\* answers, the requests served and the status of the last one.
BootIdle ==
    [phase |-> "off", key |-> "set", reachable |-> TRUE, requests |-> 0, last |-> 0]

WebIdle ==
    [reqs |-> <<>>, disk |-> [path \in UploadNames |-> 0], inodes |-> <<>>,
     boot |-> BootIdle]

----------------------------------------------------------------------------
(* RAGService._process_results and the response schema *)

\* Scores are counted in units of 10^-5; round(score, 4) is the nearest
\* multiple of 10 units.
round4(score) == ((score + 5) \div 10) * 10

\* payload.get("document_name", "Unknown")
source_name(p) == IF p.doc = Absent THEN "Unknown" ELSE p.doc

\* payload.get("file_name") or payload.get("source") or "Unknown File"; a
\* payload without file_name has no source key either.
file_name(p) == IF p.file # "" /\ p.file # Absent THEN p.file ELSE "Unknown File"

\* The RetrievedChunk model declares content, source, score and page_number;
\* a keyword it does not declare is ignored by the model's constructor.
RetrievedChunk(content, source, score, page_number, fileName) ==
    [content |-> content, source |-> source, score |-> score,
     page_number |-> page_number]

ShapedChunk(d) ==
    RetrievedChunk(d.point.text, source_name(d.point), round4(d.score),
                   d.point.page, file_name(d.point))

SourcesListsRepeating(docs) ==
    {[i \in 1..Len(docs) |-> source_name(docs[i].point)]}

\* list(unique_sources): the names in the set, in the order the set yields.
SourcesLists(docs) ==
    LET unique_sources == {source_name(docs[i].point) : i \in 1..Len(docs)}
    IN InjSeqs(unique_sources, Cardinality(unique_sources))

\* The responses _process_results(docs, answer) can return for what the
\* generation step was given.
process_results(op, docs, given) ==
    {[op |-> op, raised |-> FALSE, given |-> given,
      relevant_chunks |-> [i \in 1..Len(docs) |-> ShapedChunk(docs[i])],
      sources |-> q] : q \in SourcesLists(docs)}

\* _process_results applied to a list of scored points.
ProcessResults ==
    /\ srch.op = "drawn"
    /\ resp.op = "none"
    /\ resp' \in process_results("_process_results", srch.out, <<>>)
    /\ UNCHANGED <<storeVars, initRes, ing, srch, fus, web>>

----------------------------------------------------------------------------
(* RAGService: the three query operations *)

\* A context string handed to a chain: the parts joined into it, or a fixed
\* text. No part and no fixed text is the empty string.
Joined(parts) == [parts |-> parts, marker |-> ""]

Marker(text) == [parts |-> <<>>, marker |-> text]

\* "\n\n".join([d.payload.get("page_content", "") for d in docs])
context_text(docs) == Joined([i \in 1..Len(docs) |-> docs[i].point.text])

\* "\n".join of "- [PAGE n]: content" lines, or the fixed text when the join
\* is empty.
plan_context(docs, fallback) ==
    IF docs = <<>> THEN Marker(fallback)
    ELSE Joined([i \in 1..Len(docs) |->
                    [page |-> docs[i].point.page, content |-> docs[i].point.text]])

\* search_patient_records and search_medical_protocols: one target, a
\* collection scoped to a document name, limit 8; the joined contents go to
\* the chain and the documents to _process_results.
ScopedSearch(op, coll, name) ==
    LET target == <<[collection |-> coll,
                     filter |-> create_match_filter("document_name", name)]>>
    IN /\ srch.op = "none"
       /\ \E r \in search_multiple_collections(collExists, collPoints, target, 8) :
             /\ srch' = [op |-> op, limit |-> 8,
                         targets |-> target, runs |-> r.runs, raised |-> r.raised,
                         out |-> r.out]
             /\ resp' \in IF r.raised THEN {[RespIdle EXCEPT !.op = op, !.raised = TRUE]}
                          ELSE process_results(op, r.out, <<context_text(r.out)>>)
       /\ UNCHANGED <<storeVars, initRes, ing, fus, web>>

SearchPatientRecords(patient_id) ==
    ScopedSearch("search_patient_records", COLLECTION_USER, patient_id)

SearchMedicalProtocols(disease_name) ==
    ScopedSearch("search_medical_protocols", COLLECTION_ORG, disease_name)

CombinedDocsMerged(patient_docs, protocol_docs) ==
    SortByScoreDesc(patient_docs \o protocol_docs)

\* combined_docs = patient_docs + protocol_docs
CombinedDocs(patient_docs, protocol_docs) == patient_docs \o protocol_docs

\* generate_treatment_plan: two single-collection searches (limits 5 and 7),
\* two contexts for the chain, the two result lists concatenated for
\* _process_results.
GenerateTreatmentPlan(patient_id, disease_name) ==
    LET pf == create_match_filter("document_name", patient_id)
        df == create_match_filter("document_name", disease_name)
    IN /\ srch.op = "none"
       /\ \E pr \in search_single_collection(collExists, collPoints, COLLECTION_USER, pf, 5),
             dr \in search_single_collection(collExists, collPoints, COLLECTION_ORG, df, 7) :
             LET combined_docs == CombinedDocs(pr.results, dr.results)
                 given == <<plan_context(pr.results, "NO PATIENT DATA FOUND IN DATABASE"),
                            plan_context(dr.results, "NO PROTOCOL DATA FOUND IN DATABASE")>>
             IN /\ srch' = [op |-> "generate_treatment_plan", limit |-> 5 + 7,
                            targets |-> <<[collection |-> COLLECTION_USER, filter |-> pf],
                                          [collection |-> COLLECTION_ORG, filter |-> df]>>,
                            runs |-> <<pr, dr>>, raised |-> pr.raised \/ dr.raised,
                            out |-> combined_docs]
                /\ resp' \in IF pr.raised \/ dr.raised
                             THEN {[RespIdle EXCEPT !.op = "generate_treatment_plan",
                                                    !.raised = TRUE]}
                             ELSE process_results("generate_treatment_plan",
                                                  combined_docs, given)
       /\ UNCHANGED <<storeVars, initRes, ing, fus, web>>

----------------------------------------------------------------------------
(* Rank fusion of two candidate lists *)

FusIdle == [kind |-> "none", dense |-> <<>>, sparse |-> <<>>, order |-> <<>>]

\* The fusion prefetch applied to the two ranked lists the dense and the
\* sparse prefetch returned, keeping every candidate.
Fuse ==
    /\ fus.kind = "input"
    /\ \E o \in Fusion(fus.dense, fus.sparse, Len(fus.dense) + Len(fus.sparse)) :
          fus' = [fus EXCEPT !.kind = "fused", !.order = o]
    /\ UNCHANGED <<storeVars, initRes, ing, srch, resp, web>>

----------------------------------------------------------------------------
(* Setup and ingestion: the store from its first start *)

Init ==
    /\ collExists \in SUBSET CollNames
    /\ collSchema = [c \in CollNames |-> IF c \in collExists THEN HybridSchema ELSE NoSchema]
    /\ collPoints = [c \in CollNames |-> {}]
    /\ collCreated = [c \in CollNames |-> IF c \in collExists THEN 1 ELSE 0]
    /\ nextId = 0
    /\ nCalls = 0
    /\ initRes = [calls |-> 0, raised |-> FALSE, held |-> 0]
    /\ ing = IngIdle
    /\ srch = SrchIdle
    /\ fus = FusIdle
    /\ resp = RespIdle
    /\ web = WebIdle

Next ==
    \/ InitializeCollections
    \/ \E f \in Files, dn \in DocNames, coll \in CollNames, fault \in Faults :
          ProcessDocument(f, dn, coll, fault)
    \/ \E coll \in CollNames, shapes \in SeqsBetween(SparseShapes, 1, MaxBatch) :
          UpsertPoints(coll, shapes)

Spec == Init /\ [][Next]_vars

\* Ingestions in which any one stage's collaborator may fail.
NextPipeline ==
    \E f \in Files, coll \in CollNames, fault \in StageFaults :
        ProcessDocument(f, "p1", coll, fault)

SpecPipeline == Init /\ [][NextPipeline]_vars

----------------------------------------------------------------------------
(* Searches over a populated store *)

MaxStored == 4       \* points in the searched collection
MaxAggStored == 3    \* points over both collections
MaxLimit == 2        \* largest result limit of a request
MaxTargets == 2      \* most search targets of a request
MaxFused == 4        \* distinct candidates over the two fused lists

\* A stored chunk: its text (by the three similarities to the query), its
\* document name, the collection it was ingested into.
KindCode(k) ==
    (IF k.coll = COLLECTION_USER THEN 0 ELSE 1000)
    + (IF k.doc = "p1" THEN 0 ELSE IF k.doc = "p2" THEN 100 ELSE 200)
    + k.text.d * 16 + k.text.s * 4 + k.text.c

\* Ingestion histories up to the order of the calls, which search ignores.
Histories(kinds, n) ==
    {q \in [1..n -> kinds] : \A i \in 1..(n - 1) : KindCode(q[i]) <= KindCode(q[i + 1])}

\* The chunk of a one-page PDF ingested under a document name, or a chunk
\* upserted directly without metadata.
StoredChunk(k) ==
    IF k.doc = Absent THEN [DirectChunk EXCEPT !.text = k.text]
    ELSE chunk_documents(clean_documents(
            load_pdf(FileName([stem |-> UploadStem, ext |-> ".pdf"]), UploadStem,
                     [ok |-> TRUE, pages |-> <<<<k.text>>>>], k.doc).docs))[1]

\* The points the i-th of these ingestions left in collection c.
Stored(q, c) ==
    {PointStruct(PointId(i - 1, 1, StoredChunk(q[i])),
                 embed_documents(<<StoredChunk(q[i])>>)[1])
        : i \in {j \in 1..Len(q) : q[j].coll = c}}

Populated(ex, q) ==
    /\ collExists = ex
    /\ collSchema = [c \in CollNames |-> IF c \in ex THEN HybridSchema ELSE NoSchema]
    /\ collPoints = [c \in CollNames |-> Stored(q, c)]
    /\ collCreated = [c \in CollNames |-> IF c \in ex THEN 1 ELSE 0]
    /\ nextId = Len(q)
    /\ nCalls = Len(q)
    /\ initRes = [calls |-> 1, raised |-> FALSE, held |-> 0]
    /\ ing = IngIdle
    /\ srch = SrchIdle
    /\ fus = FusIdle
    /\ resp = RespIdle
    /\ web = WebIdle

\* Two more texts: one far from the query in every respect, one close.
TC == [d |-> 1, s |-> 0, c |-> 1]
TD == [d |-> 2, s |-> 1, c |-> 2]

SearchKinds ==
    {[coll |-> COLLECTION_USER, doc |-> dn, text |-> t]
        : dn \in {"p1", "p2"}, t \in {TA, TB, TC, TD}}

AggKinds ==
    {[coll |-> cn, doc |-> dn, text |-> [d |-> 1, s |-> 1, c |-> c]]
        : cn \in CollNames, dn \in {"p1", "p2", Absent}, c \in 1..2}

SearchFilters == {NoFilter, create_match_filter("document_name", "p1"), InvalidFilter}

Targets == {[collection |-> c, filter |-> f] : c \in CollNames, f \in SearchFilters}

\* One collection with up to MaxStored chunks of two documents; the other
\* collection was never created.
InitSearch ==
    \E n \in 0..MaxStored : \E q \in Histories(SearchKinds, n) :
        Populated({COLLECTION_USER}, q)

NextSearch ==
    \E coll \in CollNames, f \in SearchFilters, limit \in 0..MaxLimit :
        SearchSingle(coll, f, limit)

SpecSearch == InitSearch /\ [][NextSearch]_vars

MaxRepeatStored == 3      \* points in a collection searched repeatedly

\* The searches of SpecSearch over a collection of up to MaxRepeatStored
\* chunks, for comparing the runs one search can make.
InitRepeat ==
    \E n \in 0..MaxRepeatStored : \E q \in Histories(SearchKinds, n) :
        Populated({COLLECTION_USER}, q)

NextRepeat ==
    \E coll \in CollNames, f \in SearchFilters, limit \in 0..MaxLimit :
        SearchSingle(coll, f, limit)

SpecRepeat == InitRepeat /\ [][NextRepeat]_vars

\* Up to MaxAggStored chunks over the collections that exist.
InitAggregate ==
    \E ex \in {{COLLECTION_USER}, CollNames} : \E n \in 0..MaxAggStored :
        \E q \in Histories({k \in AggKinds : k.coll \in ex}, n) : Populated(ex, q)

NextAggregate ==
    \/ \E targets \in SeqsBetween(Targets, 1, MaxTargets), limit \in 0..MaxLimit :
          SearchMultiple(targets, limit)
    \/ \E patient_id \in {"p1", "p2"} : SearchPatientRecords(patient_id)

SpecAggregate == InitAggregate /\ [][NextAggregate]_vars

\* Chunks of two documents per collection, with late-interaction scores
\* that rounding to four places moves.
ServiceKinds ==
    {[coll |-> cn, doc |-> dn, text |-> [d |-> 1, s |-> 1, c |-> c]]
        : cn \in CollNames, dn \in {"p1", "p2"}, c \in {12, 17, 26}}

MaxPlanStored == 6   \* chunks of one patient, more than the plan's patient limit

\* One protocol chunk and MaxPlanStored chunks of one patient, no two of the
\* same dense, sparse or late-interaction score.
PlanHistory ==
    [i \in 1..(MaxPlanStored + 1) |->
        IF i = 1
        THEN [coll |-> COLLECTION_ORG, doc |-> "p2", text |-> [d |-> 1, s |-> 1, c |-> 17]]
        ELSE [coll |-> COLLECTION_USER, doc |-> "p1",
              text |-> [d |-> i, s |-> MaxPlanStored + 3 - i, c |-> 10 * i + 2]]]

\* Up to MaxAggStored chunks over the collections that exist, or the store
\* of PlanHistory.
InitService ==
    \/ \E ex \in {{COLLECTION_USER}, CollNames} : \E n \in 0..MaxAggStored :
          \E q \in Histories({k \in ServiceKinds : k.coll \in ex}, n) : Populated(ex, q)
    \/ Populated(CollNames, PlanHistory)

NextService ==
    \/ \E patient_id \in {"p1", "p2"} : SearchPatientRecords(patient_id)
    \/ \E disease_name \in {"p1", "p2"} : SearchMedicalProtocols(disease_name)
    \/ \E patient_id \in {"p1", "p2"}, disease_name \in {"p1", "p2"} :
          GenerateTreatmentPlan(patient_id, disease_name)

SpecService == InitService /\ [][NextService]_vars

FusionLists == UNION {InjSeqs(1..MaxFused, n) : n \in 0..MaxFused}

InitFusion ==
    /\ collExists = {}
    /\ collSchema = [c \in CollNames |-> NoSchema]
    /\ collPoints = [c \in CollNames |-> {}]
    /\ collCreated = [c \in CollNames |-> 0]
    /\ nextId = 0
    /\ nCalls = 0
    /\ initRes = [calls |-> 0, raised |-> FALSE, held |-> 0]
    /\ ing = IngIdle
    /\ srch = SrchIdle
    /\ resp = RespIdle
    /\ web = WebIdle
    /\ \E dn \in FusionLists, sp \in FusionLists :
          fus = [kind |-> "input", dense |-> dn, sparse |-> sp, order |-> <<>>]

NextFusion == Fuse

SpecFusion == InitFusion /\ [][NextFusion]_vars

----------------------------------------------------------------------------
(* _process_results over drawn lists of scored points *)

MaxShaped == 3       \* scored points handed to _process_results

\* Chunks by document name (or none) and late-interaction score.
ShapeKinds ==
    {[coll |-> COLLECTION_USER, doc |-> dn, text |-> [d |-> 1, s |-> 1, c |-> c]]
        : dn \in {"p1", "p2", Absent}, c \in {12, 17, 26}}

ScoredPoint(i, k) ==
    LET pt == PointStruct(i, embed_documents(<<StoredChunk(k)>>)[1])
    IN [point |-> pt, score |-> pt.colbert]

InitShaping ==
    /\ collExists = CollNames
    /\ collSchema = [c \in CollNames |-> HybridSchema]
    /\ collPoints = [c \in CollNames |-> {}]
    /\ collCreated = [c \in CollNames |-> 1]
    /\ nextId = 0
    /\ nCalls = 0
    /\ initRes = [calls |-> 1, raised |-> FALSE, held |-> 0]
    /\ ing = IngIdle
    /\ fus = FusIdle
    /\ resp = RespIdle
    /\ web = WebIdle
    /\ \E kinds \in SeqsBetween(ShapeKinds, 0, MaxShaped) :
          srch = [SrchIdle EXCEPT !.op = "drawn",
                     !.out = [i \in 1..Len(kinds) |-> ScoredPoint(i, kinds[i])]]

NextShaping == ProcessResults

SpecShaping == InitShaping /\ [][NextShaping]_vars

----------------------------------------------------------------------------
(* main.ingest_document: /ingest requests served by one event loop *)

MaxUploads == 2      \* /ingest requests in flight

\* The content of a file opened for writing and not yet written.
NoContent == [ok |-> FALSE, pages |-> <<>>, members |-> <<>>, bytes |-> 0]

UploadContents ==
    {[ok |-> b.ok, pages |-> b.pages, members |-> <<>>, bytes |-> 1]
        : b \in PdfBodies(1)}

\* An /ingest request as it arrives: the upload's name and content and the
\* two form fields.
Uploads ==
    [filename : UploadNames, content : UploadContents, document_name : {"p1", "p2"},
     collection_name : {COLLECTION_USER}]

Arrived(u) ==
    [filename |-> u.filename, content |-> u.content,
     document_name |-> u.document_name, collection_name |-> u.collection_name,
     pc |-> "arrived", buffer |-> 0, read |-> NoFile, fault |-> "none", status |-> 0,
     stored |-> {}]

Stem(name) == IF name = "f.pdf" THEN "f" ELSE "g"

\* What a path names when process_document looks at it.
FileAt(disk, inodes, path) ==
    IF disk[path] = 0
    THEN [stem |-> Stem(path), ext |-> ".pdf", status |-> "missing", body |-> NoBody]
    ELSE IF inodes[disk[path]].bytes = 0
    THEN [stem |-> Stem(path), ext |-> ".pdf", status |-> "empty", body |-> NoBody]
    ELSE [stem |-> Stem(path), ext |-> ".pdf", status |-> "present",
          body |-> [ok |-> inodes[disk[path]].ok, pages |-> inodes[disk[path]].pages,
                    members |-> <<>>]]

\* The file a request uploaded, as process_document would see it saved alone.
OwnFile(r) ==
    [stem |-> Stem(r.filename), ext |-> ".pdf", status |-> "present",
     body |-> [ok |-> r.content.ok, pages |-> r.content.pages, members |-> <<>>]]

\* ingest_document up to `await file.read()`: temp_path is the upload's name;
\* open(temp_path, "wb") creates the file or truncates the one the path names.
OpenTemp(i) ==
    LET r == web.reqs[i]
        temp_path == r.filename
        fresh == web.disk[temp_path] = 0
        inode == IF fresh THEN Len(web.inodes) + 1 ELSE web.disk[temp_path]
    IN /\ r.pc = "arrived"
       /\ web' = [web EXCEPT
                    !.disk[temp_path] = inode,
                    !.inodes = IF fresh THEN Append(web.inodes, NoContent)
                               ELSE [web.inodes EXCEPT ![inode] = NoContent],
                    !.reqs[i].pc = "reading",
                    !.reqs[i].buffer = inode]
       /\ UNCHANGED <<storeVars, initRes, ing, srch, fus, resp>>

KeepTemp(disk, temp_path) == disk

\* finally: if os.path.exists(temp_path): os.remove(temp_path)
RemoveTemp(disk, temp_path) ==
    IF disk[temp_path] # 0 THEN [disk EXCEPT ![temp_path] = 0] ELSE disk

\* The response: the dict of line 71 (status 200), or the HTTPException the
\* except clause raises for any exception of the try block.
IngestStatus(raised) == IF raised THEN 500 ELSE 200

\* ingest_document from the return of `await file.read()`: the content is
\* written through the open handle, process_document runs on temp_path (a
\* collaborator of one of its stages may fail), the response is 200 or 500,
\* and the finally block removes temp_path if the path exists.
FinishIngest(i, fault) ==
    LET r == web.reqs[i]
        temp_path == r.filename
        inodes == [web.inodes EXCEPT ![r.buffer] = r.content]
        seen == FileAt(web.disk, inodes, temp_path)
        result == process_document(collExists, collPoints, nextId, seen,
                                   r.document_name, r.collection_name, fault)
    IN /\ r.pc = "reading"
       /\ collPoints' = result.points
       /\ nextId' = nextId + result.ids
       /\ nCalls' = nCalls + 1
       /\ ing' = [op |-> "process_document", file |-> seen,
                  docName |-> r.document_name, coll |-> r.collection_name,
                  fault |-> fault, shapes |-> <<>>, documents |-> <<>>,
                  embedded |-> <<>>, stages |-> result.stages,
                  raised |-> result.raised, error |-> result.error,
                  pairs |-> Len(result.pairs), firstId |-> nextId,
                  collOk |-> r.collection_name \in collExists]
       /\ web' = [web EXCEPT
                    !.inodes = inodes,
                    !.disk = RemoveTemp(web.disk, temp_path),
                    !.reqs[i].pc = "done",
                    !.reqs[i].read = seen,
                    !.reqs[i].fault = fault,
                    !.reqs[i].status = IngestStatus(result.raised),
                    !.reqs[i].stored =
                        result.points[r.collection_name] \ collPoints[r.collection_name]]
       /\ UNCHANGED <<collExists, collSchema, collCreated, initRes, srch, fus, resp>>

\* The collections exist (startup ran) and MaxUploads requests have arrived.
InitUpload ==
    /\ collExists = CollNames
    /\ collSchema = [c \in CollNames |-> HybridSchema]
    /\ collPoints = [c \in CollNames |-> {}]
    /\ collCreated = [c \in CollNames |-> 1]
    /\ nextId = 0
    /\ nCalls = 0
    /\ initRes = [calls |-> 1, raised |-> FALSE, held |-> 0]
    /\ ing = IngIdle
    /\ srch = SrchIdle
    /\ fus = FusIdle
    /\ resp = RespIdle
    /\ \E us \in [1..MaxUploads -> Uploads] :
          web = [WebIdle EXCEPT !.reqs = [i \in 1..MaxUploads |-> Arrived(us[i])],
                                !.boot.phase = "serving"]

NextUpload ==
    \/ \E i \in 1..MaxUploads : OpenTemp(i)
    \/ \E i \in 1..MaxUploads, fault \in StageFaults : FinishIngest(i, fault)

SpecUpload == InitUpload /\ [][NextUpload]_vars

----------------------------------------------------------------------------
(* Startup: core.config.settings, main.lifespan, and the requests after it *)

MaxRequests == 4     \* query requests served after startup

\* `settings = Settings()` when core.config is imported: GROQ_API_KEY is a
\* required str, so a missing variable raises and the process ends; an empty
\* value is a str and is accepted.
LoadSettings ==
    /\ web.boot.phase = "off"
    /\ web' = [web EXCEPT !.boot.phase =
                  IF web.boot.key = "missing" THEN "crashed" ELSE "loaded"]
    /\ UNCHANGED <<storeVars, initRes, ing, srch, fus, resp>>

\* lifespan: initialize_collections inside try/except Exception; whatever
\* happens the function reaches `yield` and the application serves.
Lifespan ==
    /\ web.boot.phase = "loaded"
    /\ LET r == IF web.boot.reachable
                THEN initialize_collections(
                        StoreView(collExists, collSchema, collPoints, collCreated))
                ELSE [StoreView(collExists, collSchema, collPoints, collCreated)
                         EXCEPT !.raised = TRUE]
       IN /\ collExists' = r.exists
          /\ collSchema' = r.schema
          /\ collPoints' = r.points
          /\ collCreated' = r.created
          /\ initRes' = [calls |-> initRes.calls + 1,
                         raised |-> initRes.raised \/ r.raised,
                         held |-> Cardinality(UNION {collPoints[c] : c \in CollNames})]
    /\ web' = [web EXCEPT !.boot.phase = "serving"]
    /\ UNCHANGED <<nextId, nCalls, ing, srch, fus, resp>>

\* LLMClient.__init__: `if not self.api_key: raise ValueError`.
LLMClientRaises(key) == key # "set"

\* POST /search/patient: get_rag_service builds a RAGService (and with it an
\* LLMClient) for the request; an exception is answered 500. A store that
\* does not answer fails query_points, which the search catches.
SearchPatient(patient_id) ==
    LET target == <<[collection |-> COLLECTION_USER,
                     filter |-> create_match_filter("document_name", patient_id)]>>
        ex == IF web.boot.reachable THEN collExists ELSE {}
    IN /\ web.boot.phase = "serving"
       /\ web.boot.requests < MaxRequests
       /\ IF LLMClientRaises(web.boot.key)
          THEN /\ web' = [web EXCEPT !.boot.requests = @ + 1, !.boot.last = 500]
               /\ UNCHANGED <<srch, resp>>
          ELSE \E r \in search_multiple_collections(ex, collPoints, target, 8) :
                  /\ srch' = [op |-> "search_patient_records", limit |-> 8,
                              targets |-> target, runs |-> r.runs, raised |-> r.raised,
                              out |-> r.out]
                  /\ resp' \in process_results("search_patient_records", r.out,
                                               <<context_text(r.out)>>)
                  /\ web' = [web EXCEPT !.boot.requests = @ + 1, !.boot.last = 200]
       /\ UNCHANGED <<storeVars, initRes, ing, fus>>

\* A process about to start, in any environment, over any store.
InitStartup ==
    /\ collExists \in SUBSET CollNames
    /\ collSchema = [c \in CollNames |-> IF c \in collExists THEN HybridSchema ELSE NoSchema]
    /\ collPoints = [c \in CollNames |-> {}]
    /\ collCreated = [c \in CollNames |-> IF c \in collExists THEN 1 ELSE 0]
    /\ nextId = 0
    /\ nCalls = 0
    /\ initRes = [calls |-> 0, raised |-> FALSE, held |-> 0]
    /\ ing = IngIdle
    /\ srch = SrchIdle
    /\ fus = FusIdle
    /\ resp = RespIdle
    /\ \E key \in {"missing", "empty", "set"}, reachable \in BOOLEAN :
          web = [WebIdle EXCEPT !.boot.key = key, !.boot.reachable = reachable]

NextStartup ==
    \/ LoadSettings
    \/ Lifespan
    \/ \E patient_id \in {"p1", "p2"} : SearchPatient(patient_id)

SpecStartup == InitStartup /\ [][NextStartup]_vars

----------------------------------------------------------------------------
(* One PDF ingested, then searched by its document name *)

MaxCiteCalls == 1    \* ingestions before the search

NextCite ==
    \/ \E f \in PdfFiles, dn \in DocNames, coll \in CollNames :
          nCalls < MaxCiteCalls /\ ProcessDocument(f, dn, coll, "none")
    \/ \E patient_id \in {"p1", "p2"} : SearchPatientRecords(patient_id)

SpecCite == Init /\ [][NextCite]_vars

----------------------------------------------------------------------------
(* embed_documents over drawn chunk lists and model yields *)

MaxEmbedded == 3     \* chunks handed to embed_documents

\* The i-th chunk of a list: its text differs from every other chunk's in
\* each of the three embeddings.
DrawnChunk(i) == [DirectChunk EXCEPT !.text = [d |-> i, s |-> i, c |-> i], !.idx = i - 1]

\* embed_documents(documents); kd, ks and kc are the inputs for which the
\* three models yield an embedding.
EmbedDocuments(kd, ks, kc) ==
    /\ ing.op = "drawn"
    /\ kd \subseteq 1..Len(ing.documents)
    /\ ks \subseteq 1..Len(ing.documents)
    /\ kc \subseteq 1..Len(ing.documents)
    /\ ing' = [ing EXCEPT !.op = "embed_documents",
                          !.shapes = <<kd, ks, kc>>,
                          !.embedded = embed_documents_yielding(ing.documents, kd, ks, kc)]
    /\ UNCHANGED <<storeVars, initRes, srch, fus, resp, web>>

InitEmbed ==
    /\ collExists = CollNames
    /\ collSchema = [c \in CollNames |-> HybridSchema]
    /\ collPoints = [c \in CollNames |-> {}]
    /\ collCreated = [c \in CollNames |-> 1]
    /\ nextId = 0
    /\ nCalls = 0
    /\ initRes = [calls |-> 1, raised |-> FALSE, held |-> 0]
    /\ srch = SrchIdle
    /\ fus = FusIdle
    /\ resp = RespIdle
    /\ web = WebIdle
    /\ \E n \in 0..MaxEmbedded :
          ing = [IngIdle EXCEPT !.op = "drawn",
                                !.documents = [i \in 1..n |-> DrawnChunk(i)]]

NextEmbed ==
    \E kd, ks, kc \in SUBSET (1..MaxEmbedded) : EmbedDocuments(kd, ks, kc)

SpecEmbed == InitEmbed /\ [][NextEmbed]_vars

----------------------------------------------------------------------------
(* Direct upserts of pairs that lack vectors *)

\* What a caller's embeddings dictionary holds for a pair: each of "dense"
\* and "colbert" present or missing (.get gives None), "sparse" a dictionary
\* of indices and values or None.
VectorKinds == [dense : BOOLEAN, sparse : {"dict", "none"}, colbert : BOOLEAN]

VectorPair(k) ==
    [chunk |-> DirectChunk,
     emb |-> [dense |-> IF k.dense THEN TB.d ELSE NoVec,
              sparse |-> [shape |-> k.sparse, w |-> TB.s],
              colbert |-> IF k.colbert THEN TB.c ELSE NoVec]]

UpsertVectors(coll, kinds) ==
    LET data == [i \in 1..Len(kinds) |-> VectorPair(kinds[i])]
        r == upsert_points(collExists, collPoints, nextId, coll, data, "none")
    IN /\ nCalls < MaxCalls
       /\ collPoints' = r.points
       /\ nextId' = nextId + r.ids
       /\ nCalls' = nCalls + 1
       /\ ing' = [op |-> "upsert_points", file |-> NoFile, docName |-> "",
                  coll |-> coll, fault |-> "none", shapes |-> kinds,
                  documents |-> <<>>, embedded |-> <<>>,
                  stages |-> <<"store">>, raised |-> r.raised, error |-> r.error,
                  pairs |-> Len(data), firstId |-> nextId,
                  collOk |-> coll \in collExists]
       /\ UNCHANGED <<collExists, collSchema, collCreated, initRes, srch, fus, resp, web>>

NextUpsert ==
    \E coll \in CollNames, kinds \in SeqsBetween(VectorKinds, 1, MaxBatch) :
        UpsertVectors(coll, kinds)

SpecUpsert == Init /\ [][NextUpsert]_vars

----------------------------------------------------------------------------
(* Claims about the aggregate search, checked under SpecAggregate *)

Count(q, x) == Cardinality({i \in 1..Len(q) : q[i] = x})

NonIncreasing(q) == \A i \in 1..(Len(q) - 1) : q[i].score >= q[i + 1].score

AggregateCalled == srch.op \in {"search_multiple_collections", "search_patient_records"}

AggregateReturned == AggregateCalled /\ ~srch.raised

\* Everything the targets' single-collection searches returned.
Candidates == Aggregated(srch.runs)

LeftOut(x) == Count(Candidates, x) > Count(srch.out, x)

\* C1: for every list of targets and every limit L >= 0 the aggregate search
\* returns at most L points, taken from what the targets returned, in
\* non-increasing order of score, and each returned point scores at least
\* as much as every point some target returned that was left out.
C1_MergeProperty ==
    AggregateReturned =>
        /\ Len(srch.out) <= srch.limit
        /\ NonIncreasing(srch.out)
        /\ \A x \in Range(srch.out) : Count(srch.out, x) <= Count(Candidates, x)
        /\ \A x \in Range(Candidates) :
              LeftOut(x) => \A i \in 1..Len(srch.out) : srch.out[i].score >= x.score

\* Two targets both returned points, more than the limit in all, and the
\* output is not the head of the concatenation.
C1_Witness ==
    /\ AggregateReturned
    /\ Len(srch.runs) = 2
    /\ \A i \in 1..2 : srch.runs[i].results # <<>>
    /\ srch.limit >= 1
    /\ \E x \in Range(Candidates) : LeftOut(x)
    /\ srch.out # Slice(Candidates, srch.limit)

RunFailed(r) == r.raised \/ r.caught

Surviving ==
    Flatten([i \in 1..Len(srch.runs) |->
                IF RunFailed(srch.runs[i]) THEN <<>> ELSE srch.runs[i].results])

\* C2: an error raised anywhere inside the single-collection search of one
\* target, while its query is built or executed, is contained: the target
\* contributes no result, the aggregate search does not raise, and it
\* returns what it would return over the other targets alone.
C2_ErrorContained ==
    AggregateCalled =>
        /\ ~srch.raised
        /\ Len(srch.runs) = Len(srch.targets)
        /\ \A i \in 1..Len(srch.runs) :
              RunFailed(srch.runs[i]) => srch.runs[i].results = <<>>
        /\ srch.out = GlobalRerank(Surviving, srch.limit)

\* The part of C2 the code keeps: with every query well-formed, an error of
\* query_points is contained.
C2_ExecutionErrorContained ==
    (\A i \in 1..Len(srch.targets) : ~BuildRaises(srch.targets[i].filter))
        => C2_ErrorContained

Scoped(t) == t.filter.kind = "match" /\ t.filter.key = "document_name"

\* C3: every point returned for a target that carries the exact-match filter
\* document_name = v has payload document_name v, and so has every point of
\* the output of a search all of whose targets carry that filter; a point
\* with another document name, or none, is never returned.
C3_FilterIsolation ==
    AggregateCalled =>
        /\ \A i \in 1..Len(srch.runs) :
              Scoped(srch.targets[i]) =>
                  \A j \in 1..Len(srch.runs[i].results) :
                      srch.runs[i].results[j].point.doc = srch.targets[i].filter.value
        /\ \A v \in {srch.targets[i].filter.value : i \in 1..Len(srch.targets)} :
              (\A i \in 1..Len(srch.targets) :
                   Scoped(srch.targets[i]) /\ srch.targets[i].filter.value = v)
              => \A j \in 1..Len(srch.out) : srch.out[j].point.doc = v

\* A patient search returned a point from a collection that also holds a
\* point of another document and a point with no document name.
C3_Witness ==
    /\ srch.op = "search_patient_records"
    /\ srch.out # <<>>
    /\ \E p \in collPoints[COLLECTION_USER] :
          p.doc \notin {Absent, srch.targets[1].filter.value}
    /\ \E p \in collPoints[COLLECTION_USER] : p.doc = Absent

----------------------------------------------------------------------------
(* Claims about the single-collection search, checked under SpecSearch *)

SingleReturned ==
    /\ srch.op = "search_single_collection"
    /\ ~srch.runs[1].raised
    /\ ~srch.runs[1].caught

\* The points of the searched collection the target's filter selects.
InScope ==
    {p \in collPoints[srch.targets[1].collection] :
        srch.targets[1].filter.kind = "match" => p.doc = srch.targets[1].filter.value}

ReturnedPoints == {srch.out[j].point : j \in 1..Len(srch.out)}

\* C4: with limit L the dense and the sparse retrieval each keep at most 3L
\* points the filter selects, the fusion keeps at most 2L of those, and the
\* result is the min(L, fused) fused candidates of highest late-interaction
\* score in non-increasing order of that score, which is the score each
\* returned point carries.
C4_StageBudgets ==
    SingleReturned =>
        LET r == srch.runs[1]
            L == srch.limit
        IN /\ r.dense \subseteq InScope /\ Cardinality(r.dense) <= 3 * L
           /\ r.sparse \subseteq InScope /\ Cardinality(r.sparse) <= 3 * L
           /\ r.fused \subseteq r.dense \cup r.sparse
           /\ Cardinality(r.fused) <= 2 * L
           /\ Len(srch.out) = Min(L, Cardinality(r.fused))
           /\ Cardinality(ReturnedPoints) = Len(srch.out)
           /\ ReturnedPoints \subseteq r.fused
           /\ NonIncreasing(srch.out)
           /\ \A j \in 1..Len(srch.out) : srch.out[j].score = srch.out[j].point.colbert
           /\ \A p \in r.fused \ ReturnedPoints :
                 \A j \in 1..Len(srch.out) : srch.out[j].score >= p.colbert

\* Every budget binds: four points in scope, three kept by the dense
\* retrieval, two by the fusion, one returned, with a score that is not its
\* dense similarity.
C4_Witness ==
    /\ SingleReturned
    /\ srch.limit = 1
    /\ Cardinality(InScope) = 4
    /\ Cardinality(srch.runs[1].dense) = 3
    /\ srch.runs[1].sparse # {}
    /\ Cardinality(srch.runs[1].fused) = 2
    /\ Len(srch.out) = 1
    /\ srch.out[1].score # srch.out[1].point.dense

----------------------------------------------------------------------------
(* Claims about the rank fusion, checked under SpecFusion *)

Fused == fus.kind = "fused"

\* Ranks are counted from 1.
RankIn(q, x) == CHOOSE i \in 1..Len(q) : q[i] = x

InBoth(x) == x \in Range(fus.dense) /\ x \in Range(fus.sparse)

InOne(y) == (y \in Range(fus.dense)) # (y \in Range(fus.sparse))

OnlyRank(y) ==
    IF y \in Range(fus.dense) THEN RankIn(fus.dense, y) ELSE RankIn(fus.sparse, y)

BestRank(x) == Min(RankIn(fus.dense, x), RankIn(fus.sparse, x))

\* x comes before y in the fused order; the order of two candidates of equal
\* fused score is not determined, so x comes before y in every fused order
\* only if its fused score is strictly higher.
Before(x, y) == RankIn(fus.order, x) < RankIn(fus.order, y)

NearTopOfBoth(x) ==
    InBoth(x) /\ RankIn(fus.dense, x) <= 2 /\ RankIn(fus.sparse, x) <= 2

\* C5: a candidate ranked first or second in both lists is fused strictly
\* above a candidate ranked first in exactly one list and absent from the
\* other.
C5_FusionCorrectness ==
    Fused =>
        \A x, y \in Range(fus.order) :
            (NearTopOfBoth(x) /\ InOne(y) /\ OnlyRank(y) = 1) => Before(x, y)

\* A candidate second in both lists was fused with one first in one list.
C5_Witness ==
    /\ Fused
    /\ \E x, y \in Range(fus.order) :
          /\ InBoth(x) /\ RankIn(fus.dense, x) = 2 /\ RankIn(fus.sparse, x) = 2
          /\ InOne(y) /\ OnlyRank(y) = 1
          /\ Before(x, y)

\* C6 as stated: a candidate in both lists, at any ranks, is fused strictly
\* above a candidate in only one list, at any rank.
C6_AsStated ==
    Fused => \A x, y \in Range(fus.order) : (InBoth(x) /\ InOne(y)) => Before(x, y)

\* C6: a candidate in both lists is fused strictly above every candidate
\* that is in only one list at a rank no better than the better of its own
\* two ranks.
C6_BothListsFavoured ==
    Fused =>
        \A x, y \in Range(fus.order) :
            (InBoth(x) /\ InOne(y) /\ OnlyRank(y) >= BestRank(x)) => Before(x, y)

\* A candidate third or lower in one list and second or lower in the other
\* was fused with a single-list candidate of rank no better than its best.
C6_Witness ==
    /\ Fused
    /\ \E x, y \in Range(fus.order) :
          /\ InBoth(x) /\ InOne(y)
          /\ BestRank(x) >= 2
          /\ RankIn(fus.dense, x) + RankIn(fus.sparse, x) >= 5
          /\ OnlyRank(y) >= BestRank(x)
          /\ Before(x, y)

----------------------------------------------------------------------------
(* Claims about collection setup and ingestion, checked under Spec *)

AllPoints == UNION {collPoints[c] : c \in CollNames}

InitStep == initRes'.calls = initRes.calls + 1

IngestStep == nCalls' = nCalls + 1

C7_AfterSetup ==
    initRes.calls >= 1 =>
        /\ ~initRes.raised
        /\ \A c \in CollNames :
              c \in collExists /\ collCreated[c] = 1 /\ collSchema[c] = HybridSchema

C7_ExistingUntouched ==
    InitStep => \A c \in collExists :
        /\ collCreated'[c] = collCreated[c]
        /\ collSchema'[c] = collSchema[c]
        /\ collPoints'[c] = collPoints[c]

\* C7: after any number (>= 1) of sequential calls of initialize_collections
\* each of the two well-known collections exists, has been created exactly
\* once and no call has raised; a call made when a collection already exists
\* issues no create for it and leaves its schema and its points unchanged.
C7_IdempotentSetup == [](C7_AfterSetup) /\ [][C7_ExistingUntouched]_vars

\* A second setup call was made while the store held points, without error.
C7_Witness == initRes.calls >= 2 /\ initRes.held > 0 /\ ~initRes.raised

\* The input errors of an ingestion call, read off its input: a missing
\* path, an empty file, an unsupported extension, a malformed sparse vector.
InputError(i) ==
    \/ /\ i.op = "process_document"
       /\ \/ i.file.status = "missing"
          \/ i.file.status = "empty"
          \/ i.file.ext \notin {".pdf", ".zip"}
    \/ /\ i.op = "upsert_points"
       /\ \E k \in 1..Len(i.shapes) : i.shapes[k] \in {"nodict", "nokeys"}

\* C8: an ingestion call with an input error raises to its caller and the
\* collections hold exactly the points they held before the call.
C8_InputErrorNoWrite ==
    [][(IngestStep /\ InputError(ing')) => (ing'.raised /\ collPoints' = collPoints)]_vars

\* An input error was rejected while the target collection held points.
C8_Witness ==
    /\ InputError(ing) /\ ing.raised
    /\ ing.coll \in collExists /\ collPoints[ing.coll] # {}

\* The points the last ingestion call wrote.
WrittenByCall == {p \in AllPoints : p.id > ing.firstId}

IsArchiveCall == ing.op = "process_document" /\ ing.file.ext = ".zip" /\ ing.file.body.ok

Members == ing.file.body.members

FailingMembers == {i \in 1..Len(Members) : ~Members[i].ok}

LoadableMembers == {i \in 1..Len(Members) : Members[i].ok}

\* The archive of the last call has a failing and a loadable member, and
\* nothing but the archive is at fault (the embedder works, the collection
\* existed when the call was made).
PartialArchive ==
    /\ IsArchiveCall
    /\ FailingMembers # {} /\ LoadableMembers # {}
    /\ ing.fault = "none" /\ ing.collOk

\* The loader did not raise: the pipeline went on to the cleaning stage.
LoadReturned == Len(ing.stages) >= 3 /\ ing.stages[3] = "clean"

\* Every passage of every page of every loadable member is a point written
\* by the call into the target collection, and nothing else was written.
LoadableStored ==
    /\ \A i \in LoadableMembers : \A j \in 1..Len(Members[i].pages) :
         \A k \in 1..Len(Members[i].pages[j]) :
            \E p \in WrittenByCall :
               /\ p \in collPoints[ing.coll]
               /\ p.file = MemberName(i) /\ p.page = j
               /\ p.text = Members[i].pages[j][k]
    /\ \A p \in WrittenByCall : \E i \in LoadableMembers : p.file = MemberName(i)

LoadableHasText ==
    \E i \in LoadableMembers : \E j \in 1..Len(Members[i].pages) :
        Members[i].pages[j] # <<>>

\* C9: whenever some members of an archive fail to load and at least one
\* loads, load_zip skips the failing ones without raising, every page of
\* every loadable member is chunked, embedded and stored, and the ingestion
\* completes and reports success.
C9_PartialIngestion == PartialArchive => (LoadReturned /\ LoadableStored /\ ~ing.raised)

\* The part of C9 the code keeps: load_zip skips the failing members
\* without raising, and when the loadable members yield at least one chunk
\* every chunk of theirs is stored and the ingestion reports success.
C9_WithText ==
    PartialArchive =>
        /\ LoadReturned
        /\ LoadableHasText => (LoadableStored /\ ~ing.raised)

\* An archive with a failing first member and a loadable one was ingested.
C9_StoredWitness ==
    /\ PartialArchive /\ LoadableHasText /\ ~ing.raised
    /\ 1 \in FailingMembers
    /\ WrittenByCall # {}

\* C10: upsert is append-only and does not deduplicate: no step modifies or
\* removes a stored point, and a successful call adds exactly one point per
\* pair, under identifiers no stored point has, to the target collection
\* only.
C10_AppendOnly ==
    [][/\ \A c \in CollNames : collPoints[c] \subseteq collPoints'[c]
       /\ (IngestStep /\ ~ing'.raised) =>
            /\ Cardinality(collPoints'[ing'.coll] \ collPoints[ing'.coll]) = ing'.pairs
            /\ \A p \in collPoints'[ing'.coll] \ collPoints[ing'.coll] :
                  \A q \in AllPoints : q.id # p.id
            /\ \A c \in CollNames \ {ing'.coll} : collPoints'[c] = collPoints[c]]_vars

\* The same document was ingested twice: two points for each of its chunks.
C10_Witness ==
    /\ nCalls = 2 /\ ~ing.raised /\ ing.op = "process_document" /\ ing.pairs = 2
    /\ Cardinality(collPoints[ing.coll]) = 4
    /\ \A p \in collPoints[ing.coll] :
          \E q \in collPoints[ing.coll] :
             q.id # p.id /\ [q EXCEPT !.id = 0] = [p EXCEPT !.id = 0]

----------------------------------------------------------------------------
(* Claims about the vectors of a stored point, checked under SpecUpsert *)

Complete(k) == k.dense /\ k.sparse # "none" /\ k.colbert

\* C11: every point upsert_points writes carries all three vectors: a call
\* whose batch holds a pair with a missing or None vector raises and writes
\* no point, so every point written comes from a pair with all three.
C11_AllThreeVectors ==
    [][IngestStep =>
         /\ (\E i \in 1..Len(ing'.shapes) : ~Complete(ing'.shapes[i]))
               => (ing'.raised /\ collPoints' = collPoints)
         /\ collPoints' # collPoints
               => \A i \in 1..Len(ing'.shapes) : Complete(ing'.shapes[i])
         /\ \A p \in AllPoints' : p.dense # NoVec /\ p.colbert # NoVec]_vars

\* A batch whose second pair lacks its sparse vector was rejected by an
\* existing collection that already held complete points.
C11_Witness ==
    /\ ing.op = "upsert_points" /\ ing.raised /\ ing.collOk
    /\ Len(ing.shapes) = 2
    /\ Complete(ing.shapes[1]) /\ ~Complete(ing.shapes[2])
    /\ ing.shapes[2].dense /\ ing.shapes[2].colbert
    /\ collPoints[ing.coll] # {}

----------------------------------------------------------------------------
(* Claims about response shaping, checked under SpecShaping *)

Shaped == resp.op # "none" /\ ~resp.raised

\* C12: every element of relevant_chunks carries the content, the source
\* document name, the file name, the page number and the score of the point
\* it was made from; in particular the payload's file name is present.
C12_ResultFields ==
    Shaped =>
        /\ Len(resp.relevant_chunks) = Len(srch.out)
        /\ \A i \in 1..Len(resp.relevant_chunks) :
              /\ {"content", "source", "file_name", "page_number", "score"}
                    \subseteq DOMAIN resp.relevant_chunks[i]
              /\ resp.relevant_chunks[i].content = srch.out[i].point.text
              /\ resp.relevant_chunks[i].page_number = srch.out[i].point.page
              /\ resp.relevant_chunks[i].file_name = srch.out[i].point.file

ChunkSources == {resp.relevant_chunks[i].source : i \in 1..Len(resp.relevant_chunks)}

\* C13: sources holds no name twice and holds exactly the source names of
\* the elements of relevant_chunks, "Unknown" for a point without document
\* name; it is empty exactly when relevant_chunks is.
C13_SourcesDeduplicated ==
    Shaped =>
        /\ \A i, j \in 1..Len(resp.sources) : i # j => resp.sources[i] # resp.sources[j]
        /\ Range(resp.sources) = ChunkSources
        /\ \A i \in 1..Len(srch.out) :
              resp.relevant_chunks[i].source =
                 IF srch.out[i].point.doc = Absent THEN "Unknown"
                 ELSE srch.out[i].point.doc
        /\ (resp.sources = <<>>) <=> (resp.relevant_chunks = <<>>)

\* Three chunks were shaped, two of one document and one without document
\* name: two sources.
C13_Witness ==
    /\ Shaped
    /\ Len(resp.relevant_chunks) = 3
    /\ Len(resp.sources) = 2
    /\ "Unknown" \in Range(resp.sources)
    /\ resp.relevant_chunks[1].source = resp.relevant_chunks[3].source

----------------------------------------------------------------------------
(* Claims about the query operations, checked under SpecService *)

Served ==
    resp.op \in {"search_patient_records", "search_medical_protocols",
                 "generate_treatment_plan"}

\* The scoping filter of the i-th search of the operation matched no point
\* of its collection.
NoMatch(i) ==
    /\ srch.runs[i].coll \in collExists
    /\ \A p \in collPoints[srch.runs[i].coll] : ~Matches(p, srch.runs[i].filter)

\* C14: when a scoping filter matches no document the request does not fail
\* and the generation step is given an explicit "no data found" text as that
\* search's context, never the empty string, in each of the three operations.
C14_NoDataMarker ==
    Served =>
        \A i \in 1..Len(srch.runs) :
            NoMatch(i) =>
                /\ ~resp.raised
                /\ resp.given[i] # Joined(<<>>)
                /\ resp.given[i].marker # ""

\* The part of C14 the code keeps: the request does not fail, and
\* generate_treatment_plan names the missing data.
C14_PlanMarker ==
    Served =>
        \A i \in 1..Len(srch.runs) :
            NoMatch(i) =>
                /\ ~resp.raised
                /\ srch.runs[i].results = <<>>
                /\ resp.op = "generate_treatment_plan" => resp.given[i].marker # ""

\* C16: in every query operation the response's relevant_chunks are in
\* non-increasing order of score over all collections queried and number at
\* most one limit of the request.
C16_MergedResponse ==
    (Served /\ ~resp.raised) =>
        /\ NonIncreasing(resp.relevant_chunks)
        /\ \E i \in 1..Len(srch.runs) :
              Len(resp.relevant_chunks) <= srch.runs[i].limit

\* The single-target operations return what the aggregator returned.
C16_SingleTargetMerged ==
    (Served /\ ~resp.raised /\ resp.op # "generate_treatment_plan") =>
        /\ NonIncreasing(resp.relevant_chunks)
        /\ Len(resp.relevant_chunks) <= srch.limit

----------------------------------------------------------------------------
(* Claims about concurrent /ingest requests, checked under SpecUpload *)

\* What process_document returns for the request's own upload on its own,
\* its collaborators failing as they did for the request.
Alone(r) ==
    process_document(CollNames, [c \in CollNames |-> {}], 0, OwnFile(r),
                     r.document_name, r.collection_name, r.fault)

\* The (text, document name, page) of a set of points.
Stamps(P) == {<<p.text, p.doc, p.page>> : p \in P}

\* C15: whatever the interleaving of two /ingest requests, also two with the
\* same file name, each request ends as it would have ended alone and
\* ingests its own upload under its own document name; none fails on or
\* reads a file another request shares with it.
C15_RequestsIndependent ==
    \A i \in 1..Len(web.reqs) :
        web.reqs[i].pc = "done" =>
            /\ web.reqs[i].read = OwnFile(web.reqs[i])
            /\ (web.reqs[i].status = 500) <=> Alone(web.reqs[i]).raised
            /\ Stamps(web.reqs[i].stored)
                  = Stamps(Alone(web.reqs[i]).points[web.reqs[i].collection_name])

\* Requests whose uploads have different names are independent.
C15_DistinctNames ==
    \A i \in 1..Len(web.reqs) :
        (/\ web.reqs[i].pc = "done"
         /\ \A j \in 1..Len(web.reqs) :
               j # i => web.reqs[j].filename # web.reqs[i].filename) =>
            /\ web.reqs[i].read = OwnFile(web.reqs[i])
            /\ (web.reqs[i].status = 500) <=> Alone(web.reqs[i]).raised
            /\ Stamps(web.reqs[i].stored)
                  = Stamps(Alone(web.reqs[i]).points[web.reqs[i].collection_name])

\* A readable upload with text was answered 500 and nothing of it stored.
C15_LostUpload ==
    \E i \in 1..Len(web.reqs) :
        /\ web.reqs[i].pc = "done"
        /\ ~Alone(web.reqs[i]).raised
        /\ web.reqs[i].status = 500
        /\ web.reqs[i].read.status = "missing"
        /\ web.reqs[i].stored = {}

----------------------------------------------------------------------------
(* Claims about the order of the pipeline's stages, checked under SpecPipeline *)

IsPrefix(q, r) == Len(q) <= Len(r) /\ q = SubSeq(r, 1, Len(q))

Reached(i, stage) == stage \in Range(i.stages)

Loadable(i) == validate_file_path(i.file) /\ ~load_document(i.file, i.docName).raised

\* C17: process_document runs load, clean, chunk, embed and one storage call
\* in that order; a stage that fails is the last stage run, so a failed
\* load, clean, chunk or embed never reaches storage and stores nothing.
C17_StrictOrder ==
    [][IngestStep =>
         /\ IsPrefix(ing'.stages, StageOrder)
         /\ Reached(ing', "store") =>
               /\ Loadable(ing')
               /\ ing'.fault \notin {"clean", "chunk", "embed"}
         /\ (Loadable(ing') /\ ing'.fault \in {"clean", "chunk", "embed"}) =>
               /\ ing'.raised
               /\ ing'.stages[Len(ing'.stages)] = ing'.fault
         /\ (Reached(ing', "load") /\ ~Loadable(ing')) =>
               ing'.raised /\ ing'.stages = <<"validate", "load">>
         /\ ~Reached(ing', "store") => collPoints' = collPoints]_vars

\* After an ingestion that stored points, a second one failed at chunking:
\* it stopped there and the store kept what it held.
C17_Witness ==
    /\ nCalls = 2
    /\ ing.op = "process_document"
    /\ ing.fault = "chunk"
    /\ ing.raised
    /\ ing.stages = <<"validate", "load", "clean", "chunk">>
    /\ ing.collOk
    /\ collPoints[ing.coll] # {}

----------------------------------------------------------------------------
(* Claims about the document name of stored chunks, checked under Spec *)

DocumentStep == IngestStep /\ ing'.op = "process_document"

\* The points the step added to collection c.
Added(c) == collPoints'[c] \ collPoints[c]

\* C18: every chunk process_document(file, document_name, collection) stores
\* carries the document_name argument as its document name, the empty string
\* included, for PDFs and archives, and is stored in the named collection
\* only.
C18_NameStamped ==
    [][DocumentStep =>
         \A c \in CollNames : \A p \in Added(c) :
             p.doc = ing'.docName /\ c = ing'.coll]_vars

\* The same for a document name that is not empty.
C18_GivenNameStamped ==
    [][(DocumentStep /\ ing'.docName # "") =>
         \A c \in CollNames : \A p \in Added(c) :
             p.doc = ing'.docName /\ c = ing'.coll]_vars

\* An empty document name is replaced by the stem of the file's name.
C18_EmptyNameReplaced ==
    [][(DocumentStep /\ ing'.docName = "") =>
         \A c \in CollNames : \A p \in Added(c) :
             p.doc = ing'.file.stem /\ c = ing'.coll]_vars

----------------------------------------------------------------------------
(* Claims about the aggregator's loop and sort, checked under SpecAggregate *)

\* The i-th search run is the search of the i-th target, with the limit of
\* the request.
RunOfTarget(i) ==
    /\ srch.runs[i].coll = srch.targets[i].collection
    /\ srch.runs[i].filter = srch.targets[i].filter
    /\ srch.runs[i].limit = srch.limit

\* C19: the aggregator searches the targets in the order they are listed,
\* each exactly once, with the full limit L and the target's own filter; a
\* target whose search failed is not searched again. (A call that a
\* query-building error aborts stops at the target that raised.)
C19_OncePerTarget ==
    AggregateCalled =>
        /\ Len(srch.runs) <= Len(srch.targets)
        /\ \A i \in 1..Len(srch.runs) : RunOfTarget(i)
        /\ \A i \in 1..(Len(srch.runs) - 1) : ~srch.runs[i].raised
        /\ ~srch.raised => Len(srch.runs) = Len(srch.targets)
        /\ (\A i \in 1..Len(srch.targets) : ~BuildRaises(srch.targets[i].filter))
              => ~srch.raised

\* The first target's search failed inside query_points and was not run
\* again; the second target was searched with the full limit and returned a
\* point.
C19_Witness ==
    /\ AggregateReturned
    /\ Len(srch.targets) = 2
    /\ Len(srch.runs) = 2
    /\ srch.limit = 1
    /\ srch.runs[1].caught
    /\ srch.runs[2].limit = 1
    /\ srch.runs[2].results # <<>>

\* The elements of q that score v, in the order q lists them.
Scoring(q, v) ==
    LET Test(x) == x.score = v IN SelectSeq(q, Test)

\* C20: ties keep insertion order: the returned points of one score are the
\* first points of that score in the concatenation of the targets' results,
\* in the concatenation's order: an earlier target's before a later one's,
\* one target's in the order its search returned them.
C20_TiesKeepInsertionOrder ==
    AggregateReturned =>
        \A v \in {srch.out[i].score : i \in 1..Len(srch.out)} :
            IsPrefix(Scoring(srch.out, v), Scoring(Candidates, v))

\* Two targets each returned one point, the two are different points of one
\* score, and both are in the output.
C20_Witness ==
    /\ AggregateReturned
    /\ Len(srch.runs) = 2
    /\ Len(srch.runs[1].results) = 1
    /\ Len(srch.runs[2].results) = 1
    /\ srch.runs[1].results[1].score = srch.runs[2].results[1].score
    /\ srch.runs[1].results[1].point # srch.runs[2].results[1].point
    /\ srch.out = <<srch.runs[1].results[1], srch.runs[2].results[1]>>

----------------------------------------------------------------------------
(* Claims about repeated searches, checked under SpecRepeat *)

\* Every run the same search (same collection, filter and limit) can make
\* against the contents the store holds.
SameSearch ==
    search_single_collection(collExists, collPoints, srch.targets[1].collection,
                             srch.targets[1].filter, srch.limit)

\* C21 as stated: every run of the same search against the same contents
\* returns the same points with the same scores in the same order.
C21_SameResults ==
    SingleReturned => \A r \in SameSearch : r.results = srch.out

\* No stage of the search cuts its candidates, and no two points in scope
\* have the same late-interaction score.
Uncut == Cardinality(InScope) <= fusion_limit(srch.limit)

DistinctScores == \A p, q \in InScope : p # q => p.colbert # q.colbert

\* C21: the late-interaction score is reproducible: a point two runs of the
\* same search both return has the same score in both, and the two runs
\* return the same points in the same order whenever no stage cuts its
\* candidates and no two points in scope have the same score.
C21_ScoresReproducible ==
    SingleReturned =>
        /\ NonIncreasing(srch.out)
        /\ \A r \in SameSearch :
              \A i \in 1..Len(r.results), j \in 1..Len(srch.out) :
                  r.results[i].point = srch.out[j].point
                     => r.results[i].score = srch.out[j].score
        /\ (Uncut /\ DistinctScores) => \A r \in SameSearch : r.results = srch.out

\* A search returned two points of one score; another run of the same search
\* returns them in the other order.
C21_Witness ==
    /\ SingleReturned
    /\ Len(srch.out) = 2
    /\ srch.out[1].score = srch.out[2].score
    /\ \E r \in SameSearch : r.results = <<srch.out[2], srch.out[1]>>

----------------------------------------------------------------------------
(* Claims about what an ingestion has stored when it returns, under Spec *)

\* The chunks process_document cuts from the file of call i.
ChunksOf(i) ==
    chunk_documents(clean_documents(load_document(i.file, i.docName).docs))

\* The chunk a point was made from.
ChunkOfPoint(p) ==
    [text |-> p.text, file |-> p.file, doc |-> p.doc, src |-> p.src, page |-> p.page,
     zip |-> p.zip, cleaned |-> p.cleaned, idx |-> p.idx]

\* The document name the chunks of call i are stored under.
StoredName(i) == IF i.docName # "" THEN i.docName ELSE i.file.stem

\* C22: when process_document returns without error every chunk of the
\* document is in the target collection, one point per chunk, within reach
\* of a search scoped to the document's name; and the points stay there.
C22_StoredOnReturn ==
    [][/\ (DocumentStep /\ ~ing'.raised) =>
             /\ Cardinality(Added(ing'.coll)) = Len(ChunksOf(ing'))
             /\ {ChunkOfPoint(p) : p \in Added(ing'.coll)} = Range(ChunksOf(ing'))
             /\ Added(ing'.coll) \subseteq
                   DenseCandidates(collPoints'[ing'.coll],
                                   create_match_filter("document_name", StoredName(ing')))
       /\ \A c \in CollNames : collPoints[c] \subseteq collPoints'[c]]_vars

\* A second ingestion, of an archive, returned: its two chunks are stored
\* next to the points of the first.
C22_Witness ==
    /\ nCalls = 2
    /\ ing.op = "process_document"
    /\ ~ing.raised
    /\ ing.file.ext = ".zip"
    /\ ing.pairs = 2
    /\ Cardinality(collPoints[ing.coll]) > 2
    /\ \E p \in collPoints[ing.coll] : p.id > ing.firstId /\ p.doc = StoredName(ing)

----------------------------------------------------------------------------
(* Claims about startup, checked under SpecStartup *)

Serving == web.boot.phase = "serving"

\* C23: a configuration error is fatal at startup: with the LLM API key
\* missing or empty, or with a vector store that could not be initialised,
\* the service never reaches the state in which it serves requests.
C23_FatalAtStartup ==
    Serving =>
        /\ web.boot.key = "set"
        /\ web.boot.reachable
        /\ ~initRes.raised

\* The part of C23 the code keeps: without the key variable the process
\* never serves.
C23_MissingKeyFatal == Serving => web.boot.key # "missing"

\* The service started with an empty key and answered every request 500.
C23_FailsEachRequest ==
    /\ Serving
    /\ web.boot.key = "empty"
    /\ web.boot.requests = MaxRequests
    /\ web.boot.last = 500

----------------------------------------------------------------------------
(* Claims about page numbers, checked under SpecCite *)

\* C24: every chunk cut from a PDF of N pages carries the 1-based number, in
\* 1..N, of the page it was cut from, and the response element made from the
\* chunk reports that page number.
C24_PageNumbers ==
    [][/\ (DocumentStep /\ ing'.file.ext = ".pdf") =>
             \A p \in Added(ing'.coll) :
                 /\ p.page \in 1..Len(ing'.file.body.pages)
                 /\ \E k \in 1..Len(ing'.file.body.pages[p.page]) :
                       ing'.file.body.pages[p.page][k] = p.text
       /\ resp' # resp =>
             /\ Len(resp'.relevant_chunks) = Len(srch'.out)
             /\ \A i \in 1..Len(srch'.out) :
                   /\ srch'.out[i].point \in collPoints[COLLECTION_USER]
                   /\ resp'.relevant_chunks[i].page_number = srch'.out[i].point.page
                   /\ resp'.relevant_chunks[i].content = srch'.out[i].point.text]_vars

\* A PDF of two pages was ingested and the response cites chunks of page 1
\* and of page 2.
C24_Witness ==
    /\ resp.op = "search_patient_records"
    /\ ing.op = "process_document"
    /\ Len(ing.file.body.pages) = 2
    /\ \E i, j \in 1..Len(resp.relevant_chunks) :
          /\ resp.relevant_chunks[i].page_number = 1
          /\ resp.relevant_chunks[j].page_number = 2

----------------------------------------------------------------------------
(* Claims about where returned points come from, under SpecAggregate *)

\* The points of the searched collection the filter of run r selects.
Visible(r) ==
    IF r.coll \in collExists THEN {p \in collPoints[r.coll] : Matches(p, r.filter)}
    ELSE {}

\* C25: rescoring introduces no point: what a single-collection search
\* returns is among its fused candidates, every fused candidate was
\* retrieved by the filtered dense or the filtered sparse search, and every
\* point the aggregator returns lies in the collection of one of its targets
\* and satisfies that target's filter.
C25_NoPointIntroduced ==
    AggregateCalled =>
        /\ \A i \in 1..Len(srch.runs) :
              LET r == srch.runs[i]
              IN /\ {r.results[j].point : j \in 1..Len(r.results)} \subseteq r.fused
                 /\ r.fused \subseteq r.dense \cup r.sparse
                 /\ r.dense \cup r.sparse \subseteq Visible(r)
        /\ \A j \in 1..Len(srch.out) :
              \E i \in 1..Len(srch.targets) :
                  /\ srch.targets[i].collection \in collExists
                  /\ srch.out[j].point \in collPoints[srch.targets[i].collection]
                  /\ Matches(srch.out[j].point, srch.targets[i].filter)

\* Two targets in different collections each contributed a point to the
\* output, and the first collection holds a point the first target's filter
\* leaves out.
C25_Witness ==
    /\ AggregateReturned
    /\ Len(srch.runs) = 2
    /\ srch.runs[1].coll # srch.runs[2].coll
    /\ Len(srch.out) = 2
    /\ srch.out[1].point \in srch.runs[1].fused \cup srch.runs[2].fused
    /\ \E j \in 1..2 : srch.out[j].point \in collPoints[srch.runs[1].coll]
    /\ \E j \in 1..2 : srch.out[j].point \in collPoints[srch.runs[2].coll]
    /\ \E p \in collPoints[srch.runs[1].coll] : ~Matches(p, srch.runs[1].filter)

----------------------------------------------------------------------------
(* Claims about generate_treatment_plan, checked under SpecService *)

PlanServed == resp.op = "generate_treatment_plan" /\ ~resp.raised

ShapedList(docs) == [i \in 1..Len(docs) |-> ShapedChunk(docs[i])]

\* C26: generate_treatment_plan searches the user collection (document_name
\* = patient_id, limit 5) and the organizational collection (document_name =
\* disease_name, limit 7), each on its own; the response lists the patient
\* results, then the protocol results, at most 5 + 7 chunks; a search that
\* failed or found nothing leaves the other search's results as they are.
C26_PlanComposition ==
    resp.op = "generate_treatment_plan" =>
        /\ ~resp.raised
        /\ Len(srch.runs) = 2
        /\ srch.runs[1].coll = COLLECTION_USER /\ srch.runs[1].limit = 5
        /\ srch.runs[2].coll = COLLECTION_ORG /\ srch.runs[2].limit = 7
        /\ \A i \in 1..2 : Scoped(srch.targets[i]) /\ srch.runs[i].filter = srch.targets[i].filter
        /\ Len(srch.runs[1].results) <= 5
        /\ Len(srch.runs[2].results) <= 7
        /\ Len(resp.relevant_chunks) <= 5 + 7
        /\ resp.relevant_chunks
              = ShapedList(srch.runs[1].results) \o ShapedList(srch.runs[2].results)
        /\ srch.runs[1].results = <<>> =>
              resp.relevant_chunks = ShapedList(srch.runs[2].results)
        /\ srch.runs[2].results = <<>> =>
              resp.relevant_chunks = ShapedList(srch.runs[1].results)
        /\ \A i \in 1..2 :
              srch.runs[i] \in search_single_collection(collExists, collPoints,
                                  srch.runs[i].coll, srch.runs[i].filter,
                                  srch.runs[i].limit)

\* The patient has more chunks than the patient limit: five are listed,
\* then the protocol chunk, which scores less than some and more than others.
C26_Witness ==
    /\ PlanServed
    /\ Cardinality(collPoints[COLLECTION_USER]) > 5
    /\ Len(srch.runs[1].results) = 5
    /\ Len(srch.runs[2].results) = 1
    /\ Len(resp.relevant_chunks) = 6
    /\ resp.relevant_chunks[6].source = "p2"

\* The protocol search failed (its collection does not exist) and the
\* patient results are in the response.
C26_FailureWitness ==
    /\ PlanServed
    /\ srch.runs[2].caught
    /\ srch.runs[1].results # <<>>
    /\ resp.relevant_chunks = ShapedList(srch.runs[1].results)

----------------------------------------------------------------------------
(* Claims about embed_documents, checked under SpecEmbed *)

Embedded == ing.op = "embed_documents"

\* The i-th pair holds the i-th chunk and the three embeddings of its text.
PairOfChunk(i) ==
    /\ ing.embedded[i].chunk = ing.documents[i]
    /\ ing.embedded[i].emb.dense = embed_dense(<<ing.documents[i].text>>)[1]
    /\ ing.embedded[i].emb.sparse = embed_sparse(<<ing.documents[i].text>>)[1]
    /\ ing.embedded[i].emb.colbert = embed_colbert(<<ing.documents[i].text>>)[1]

\* C27: for every list of n chunks embed_documents returns n pairs in input
\* order, the i-th holding the i-th chunk and the embeddings of that chunk's
\* text; no chunk is dropped and no embedding goes to another chunk, also
\* when the three models yield different numbers of embeddings.
C27_Correspondence ==
    Embedded =>
        /\ Len(ing.embedded) = Len(ing.documents)
        /\ \A i \in 1..Len(ing.embedded) : PairOfChunk(i)

\* The part of C27 the code keeps: when each model yields one embedding per
\* chunk the correspondence holds.
C27_FullYield ==
    (Embedded /\ \A m \in 1..3 : ing.shapes[m] = 1..Len(ing.documents))
        => C27_Correspondence

\* Three chunks went in; the dense model yielded nothing for the second: two
\* pairs came out, and the second chunk carries the third chunk's dense
\* embedding.
C27_Misattributed ==
    /\ Embedded
    /\ Len(ing.documents) = 3
    /\ ing.shapes = <<{1, 3}, {1, 2, 3}, {1, 2, 3}>>
    /\ Len(ing.embedded) = 2
    /\ ing.embedded[2].chunk = ing.documents[2]
    /\ ing.embedded[2].emb.dense = embed_dense(<<ing.documents[3].text>>)[1]

----------------------------------------------------------------------------
(* Claims about chunk numbering, checked under Spec *)

\* The points a returned process_document call stored, by chunk_index.
StoredAt(j) == {p \in Added(ing'.coll) : p.idx = j}

\* The place of a stored chunk in its document: the archive member it came
\* from (0 for a directly uploaded PDF), then its page.
MemberOf(p) ==
    IF p.src = "zip" THEN CHOOSE i \in 1..MaxMembers : MemberName(i) = p.file ELSE 0

Precedes(p, q) ==
    \/ MemberOf(p) < MemberOf(q)
    \/ MemberOf(p) = MemberOf(q) /\ p.page <= q.page

\* C28: the n chunks one process_document call stores carry the chunk
\* indexes 0..n-1, each exactly once, in document order over all pages and
\* all archive members: the numbering does not restart at a page or member.
C28_IndexRunsThrough ==
    [][(DocumentStep /\ ~ing'.raised) =>
          LET n == Cardinality(Added(ing'.coll))
          IN /\ n = ing'.pairs
             /\ \A p \in Added(ing'.coll) : p.idx \in 0..(n - 1)
             /\ \A j \in 0..(n - 1) : Cardinality(StoredAt(j)) = 1
             /\ \A p, q \in Added(ing'.coll) : p.idx < q.idx => Precedes(p, q)]_vars

\* An archive of two members of two chunks each was ingested: the chunks of
\* the second member carry the indexes 2 and 3.
C28_Witness ==
    /\ ing.op = "process_document"
    /\ ~ing.raised
    /\ ing.file.ext = ".zip"
    /\ ing.pairs = 4
    /\ \E p, q \in collPoints[ing.coll] :
          /\ p.id > ing.firstId /\ q.id > ing.firstId
          /\ p.file = MemberName(2) /\ q.file = MemberName(2)
          /\ p.idx = 2 /\ q.idx = 3

\* The same for a directly uploaded PDF of two pages.
C28_PdfWitness ==
    /\ ing.op = "process_document"
    /\ ~ing.raised
    /\ ing.file.ext = ".pdf"
    /\ ing.pairs = 4
    /\ \E p \in collPoints[ing.coll] : p.id > ing.firstId /\ p.page = 2 /\ p.idx = 3

----------------------------------------------------------------------------
(* Claims about the temporary file of /ingest, checked under SpecUpload *)

\* The step in which request i completes.
Completes(i) == web.reqs[i].pc = "reading" /\ web'.reqs[i].pc = "done"

\* C29: whatever the outcome of an ingest request (success, validation
\* failure, an error in any stage of the pipeline), when the request completes
\* no file exists under the upload's name; and a failure of the pipeline is
\* answered with an error response, never with success.
C29_TempRemoved ==
    [][\A i \in 1..MaxUploads : Completes(i) =>
          /\ web'.disk[web.reqs[i].filename] = 0
          /\ ing'.raised => web'.reqs[i].status = 500
          /\ ~ing'.raised => web'.reqs[i].status = 200]_vars

\* Two requests have completed, one with success and one after a failure of
\* the embedding stage, answered 500; neither upload's file exists.
C29_Witness ==
    /\ \A i \in 1..MaxUploads : web.reqs[i].pc = "done"
    /\ \E i \in 1..MaxUploads : web.reqs[i].status = 200 /\ web.reqs[i].stored # {}
    /\ ing.raised /\ ing.fault = "embed" /\ ing.stages[Len(ing.stages)] = "embed"
    /\ \E i \in 1..MaxUploads : web.reqs[i].status = 500
    /\ \A path \in UploadNames : web.disk[path] = 0

\* A request failed validation (the path no longer named a file when the
\* pipeline looked), was answered 500 and left no file.
C29_ValidationWitness ==
    /\ ing.op = "process_document" /\ ing.raised /\ ing.stages = <<"validate">>
    /\ \E i \in 1..MaxUploads :
          /\ web.reqs[i].pc = "done" /\ web.reqs[i].status = 500
          /\ web.disk[web.reqs[i].filename] = 0

----------------------------------------------------------------------------
(* Claims about archive ingestion, checked under Spec *)

\* The step is a process_document call on a readable archive.
ArchiveStep == DocumentStep /\ ing'.file.ext = ".zip" /\ ing'.file.body.ok

\* Every member of the archive fails to load (an archive without members
\* included).
NoMemberLoads(f) == \A i \in 1..Len(f.body.members) : ~f.body.members[i].ok

\* C30: the members of an archive are loaded one after another, so the chunks
\* of an earlier member all come before the chunks of a later one; all chunks
\* of one archive ingestion carry one document name, the name of the request
\* (the archive's stem when the request names none), never a member's, and
\* source type "zip" with the archive's name; the chunks of a directly
\* uploaded PDF carry source type "pdf"; an archive none of whose members
\* loads adds no point to any collection.
C30_ArchiveChunks ==
    [][/\ ArchiveStep =>
             /\ \A p \in Added(ing'.coll) :
                   /\ p.doc = StoredName(ing')
                   /\ ing'.docName # "" => p.doc = ing'.docName
                   /\ p.src = "zip"
                   /\ p.zip = ing'.file.stem
                   /\ \E i \in 1..Len(ing'.file.body.members) :
                         /\ p.file = MemberName(i)
                         /\ ing'.file.body.members[i].ok
             /\ \A p, q \in Added(ing'.coll) :
                   MemberOf(p) < MemberOf(q) => p.idx < q.idx
             /\ NoMemberLoads(ing'.file) =>
                   \A c \in CollNames : collPoints'[c] = collPoints[c]
       /\ (DocumentStep /\ ing'.file.ext = ".pdf") =>
             \A p \in Added(ing'.coll) : p.src = "pdf" /\ p.zip = ""]_vars

\* An archive of two members with text was ingested under the name "p1":
\* the four chunks carry that name and source type "zip", the two of the
\* first member before the two of the second.
C30_Witness ==
    /\ ing.op = "process_document"
    /\ ~ing.raised
    /\ ing.file.ext = ".zip"
    /\ ing.docName = "p1"
    /\ ing.pairs = 4
    /\ \A p \in {q \in collPoints[ing.coll] : q.id > ing.firstId} :
          /\ p.doc = "p1" /\ p.src = "zip"
          /\ p.file = MemberName(1) <=> p.idx < 2

\* After a PDF was stored, an archive of two unreadable members was
\* ingested: the call raised and the collection holds the PDF's points only.
C30_AllFailWitness ==
    /\ nCalls = 2
    /\ ing.op = "process_document"
    /\ ing.file.ext = ".zip" /\ ing.file.body.ok
    /\ Len(ing.file.body.members) = 2
    /\ NoMemberLoads(ing.file)
    /\ ing.raised
    /\ collPoints[ing.coll] # {}
    /\ \A p \in collPoints[ing.coll] : p.src = "pdf" /\ p.id <= ing.firstId

\* An archive whose first member fails to load: the second member's chunks
\* are stored.
C30_SkipWitness ==
    /\ ing.op = "process_document"
    /\ ~ing.raised
    /\ ing.file.ext = ".zip"
    /\ Len(ing.file.body.members) = 2
    /\ ~ing.file.body.members[1].ok
    /\ ing.pairs = 2
    /\ \E p \in collPoints[ing.coll] : p.id > ing.firstId /\ p.file = MemberName(2)

====
